---- MODULE Spec2Model ----
(***************************************************************************)
(* Trend classification engine of tools/generate_suggestions.py:           *)
(* weekend grouping, rotation filter, the four category scorers            *)
(* (Leaders, Rising, Crashed, One-Offs), their relaxation ladders, the     *)
(* One-Offs candidate pool / curation step and the output assembly.        *)
(*                                                                         *)
(* Numbers.  Python floats are modelled by exact rationals <<n, d>> with   *)
(* d > 0 and gcd(n, d) = 1.  round(x, k) is modelled as round-half-even on *)
(* the exact value.  The recency weight 0.5 ** (days / 30) is irrational   *)
(* for most day counts and is tabulated to three decimals.                 *)
(***************************************************************************)
EXTENDS Integers, Sequences, FiniteSets, TLC

VARIABLES
    pc,                     \* position of generate_suggestions
    tournaments,            \* tournaments.json: event identifiers, newest first
    files,                  \* per event: meta.json and master.json as they are on disk
    reports,                \* per event: date, formatName, usage report, decks
    selection,              \* curated selection file of the One-Offs category
    clock,                  \* wall-clock readings still to be returned by datetime.now
    tournament_data_cache,  \* TournamentDataLoader._tournament_data_cache
    archetype_cache,        \* TournamentDataLoader._archetype_cache
    all_cards_cache,        \* CardAnalyzer._all_cards_cache
    grouped,                \* result of load_grouped_tournament_data(tournaments)
    tournament_data,        \* working corpus (after the rotation filter)
    leaders,                \* category lists
    on_the_rise,
    chopped,
    that_day2d,
    that_day2d_pool,
    tiers,                  \* per category: the relaxation tiers evaluated, in order
    curated_used,
    raised,                 \* an exception escaped the step
    output,                 \* categories array of the suggestions document
    previous                \* categories array of the previous run over the same inputs

vars == <<pc, tournaments, files, reports, selection, clock, tournament_data_cache,
          archetype_cache, all_cards_cache, grouped, tournament_data, leaders,
          on_the_rise, chopped, that_day2d, that_day2d_pool, tiers, curated_used,
          raised, output, previous>>

-----------------------------------------------------------------------------
(* Exact rational arithmetic *)

Abs(n) == IF n < 0 THEN -n ELSE n

RECURSIVE Gcd(_, _)
Gcd(a, b) == IF b = 0 THEN a ELSE Gcd(b, a % b)

\* n / d as a normalised rational (d # 0)
Reduced(n, d, g) ==
    IF d < 0 THEN <<-(n \div g), -(d \div g)>> ELSE <<n \div g, d \div g>>
Rat(n, d) == Reduced(n, d, Gcd(Abs(n), Abs(d)))

Int2R(n) == <<n, 1>>
Zero == <<0, 1>>
One == <<1, 1>>

AddOver(x, y, g) ==
    Rat(x[1] * (y[2] \div g) + y[1] * (x[2] \div g), x[2] * (y[2] \div g))
RAdd(x, y) == AddOver(x, y, Gcd(x[2], y[2]))
RNeg(x) == <<-x[1], x[2]>>
RSub(x, y) == RAdd(x, RNeg(y))
Product(a, b) == <<a[1] * b[1], a[2] * b[2]>>
RMul(x, y) == Product(Rat(x[1], y[2]), Rat(y[1], x[2]))
RInv(x) == IF x[1] < 0 THEN <<-x[2], -x[1]>> ELSE <<x[2], x[1]>>
RDiv(x, y) == RMul(x, RInv(y))

\* x < y without forming the cross products when they could overflow
RECURSIVE RLtPos(_, _, _, _)
RLtPos(a, b, c, d) ==
    \* a/b < c/d for a, c >= 0 and b, d > 0
    LET qa == a \div b
        qc == c \div d
        ra == a % b
        rc == c % d
    IN  IF qa # qc THEN qa < qc
        ELSE IF rc = 0 THEN FALSE
        ELSE IF ra = 0 THEN TRUE
        ELSE RLtPos(d, rc, b, ra)

RLt(x, y) ==
    IF x[1] < 0 /\ y[1] >= 0 THEN TRUE
    ELSE IF x[1] >= 0 /\ y[1] < 0 THEN FALSE
    ELSE IF x[1] >= 0 THEN RLtPos(x[1], x[2], y[1], y[2])
    ELSE RLtPos(-y[1], y[2], -x[1], x[2])
RLe(x, y) == x = y \/ RLt(x, y)
RGt(x, y) == RLt(y, x)
RGe(x, y) == RLe(y, x)
RMin(x, y) == IF RLt(y, x) THEN y ELSE x
RMax(x, y) == IF RLt(x, y) THEN y ELSE x

\* sum(values); the exact sum does not depend on the order of the additions
\* and is taken by halves
RECURSIVE RSum(_)
RSum(s) ==
    IF s = <<>> THEN Zero
    ELSE IF Len(s) = 1 THEN s[1]
    ELSE RAdd(RSum(SubSeq(s, 1, Len(s) \div 2)), RSum(SubSeq(s, Len(s) \div 2 + 1, Len(s))))

Floor(x) == x[1] \div x[2]

\* round(x, k) for k decimals, scale = 10^k: round half to even
HalfEven(f, r) ==
    \* f + r with 0 <= r < 1, to the nearest integer
    IF RLt(r, <<1, 2>>) THEN f
    ELSE IF RLt(<<1, 2>>, r) THEN f + 1
    ELSE IF f % 2 = 0 THEN f ELSE f + 1
Nearest(y) == HalfEven(Floor(y), RSub(y, Int2R(Floor(y))))
RoundTo(x, scale) == Rat(Nearest(RMul(x, Int2R(scale))), scale)
Round1(x) == RoundTo(x, 10)
Round2(x) == RoundTo(x, 100)

-----------------------------------------------------------------------------
(* Program constants (tools/generate_suggestions.py, lines 24-76) *)

\* Card display names are numbered; the names -1 and 0 stand for basic energies.
BASIC_ENERGY == {-2, -1, 0}

RECENT_WEIGHT_HALF_LIFE_DAYS == 30
PEAK_LOOKBACK == 999
MIN_LEADER_APPEARANCE_PCT == <<3, 5>>
MIN_LEADER_AVG_PCT == <<4, 1>>
MIN_RISE_CURRENT_PCT == <<2, 1>>
MIN_RISE_DELTA_ABS == <<3, 2>>
MIN_RISE_DELTA_REL == <<5, 4>>
MIN_RISE_TOURNAMENTS == 3
MIN_CHOPPED_PEAK_PCT == <<6, 1>>
MIN_CHOPPED_DROP_ABS == <<5, 1>>
MIN_CHOPPED_DROP_REL == <<3, 5>>
MIN_SUSTAINED_PEAK_TOURNAMENTS == 2
MAX_CHOPPED_RECENT_PCT == <<2, 1>>
MAX_DAY2D_TOTAL_APPEARANCES == 2
MAX_DAY2D_PEAK_USAGE == <<3, 2>>
MAX_DAY2D_TOTAL_USAGE_SUM == <<3, 1>>
MIN_DAY2D_MIN_APPEARANCE == <<3, 10>>
MAX_DAY2D_RECENT_PCT == <<1, 10>>
DAY2D_LOOKBACK_TOURNAMENTS == 20
MAX_DAY2D_MEANINGFUL_TOURNAMENTS == 2
MAX_PER_ARCHETYPE == 2
MIN_CANDIDATES == 12
MAX_CANDIDATES == 18

\* Python's None for an archetype, and the placeholder the scorers put in its place
NoArch == "None"
UNSPECIFIED == "UNSPECIFIED"

\* Optional values: <<>> is None, <<v>> is the value v
None == <<>>
Some(v) == <<v>>
IsNone(o) == o = <<>>
Val(o) == o[1]

-----------------------------------------------------------------------------
(* Sequences and finite maps *)

Range(s) == {s[i] : i \in DOMAIN s}
Min(a, b) == IF a < b THEN a ELSE b
Max(a, b) == IF a < b THEN b ELSE a
Take(s, n) == SubSeq(s, 1, Min(n, Len(s)))
Drop(s, n) == SubSeq(s, Min(n, Len(s)) + 1, Len(s))

RECURSIVE Concat(_)
Concat(ss) == IF ss = <<>> THEN <<>> ELSE Head(ss) \o Concat(Tail(ss))

RECURSIVE SetToAscSeq(_)
SetToAscSeq(S) ==
    IF S = {} THEN <<>>
    ELSE LET m == CHOOSE x \in S : \A y \in S : x <= y
         IN  <<m>> \o SetToAscSeq(S \ {m})

RECURSIVE SetToDescSeq(_)
SetToDescSeq(S) ==
    IF S = {} THEN <<>>
    ELSE LET m == CHOOSE x \in S : \A y \in S : x >= y
         IN  <<m>> \o SetToDescSeq(S \ {m})

\* dict.get(key, default)
Get(map, key, default) == IF key \in DOMAIN map THEN map[key] ELSE default

EmptyMap == [k \in {} |-> 0]

-----------------------------------------------------------------------------
(* Tournament Corpus Loader and Weekend Grouper *)

\* TournamentData(tournament, date, pct_map, format_name, name_map); the name
\* of the observation is carried by tournament_names (__post_init__).
LoadTournamentMetadata(t, reps) ==
    [tournament_names |-> <<t>>,
     date |-> reps[t].date,
     format_name |-> reps[t].format_name,
     pct_map |-> reps[t].pct_map,
     name_map |-> reps[t].name_map]

\* load_all_tournament_data: the list is built on the first call only and the
\* cached list is returned whatever `ts` is on later calls.
LoadAllTournamentData(ts, reps, cache) ==
    IF IsNone(cache)
    THEN [i \in 1..Len(ts) |-> LoadTournamentMetadata(ts[i], reps)]
    ELSE Val(cache)

\* Fault: the Saturday of the Monday-to-Sunday week of the date
GetWeekendKeyOfWeek(date) ==
    IF IsNone(date) THEN None
    ELSE Some(Val(date) - (Val(date) % 7) + 5)

\* Dates are whole days counted from a Monday: weekday() = date % 7.
GetWeekendKey(date) ==
    IF IsNone(date) THEN None
    ELSE LET days_since_saturday == ((Val(date) % 7) + 2) % 7
         IN  Some(Val(date) - days_since_saturday)

\* Fault: the average is taken over every constituent, zeros included
CombineDiluted(ts) ==
    IF Len(ts) = 1 THEN ts[1]
    ELSE [tournament_names |-> [i \in DOMAIN ts |-> ts[i].tournament_names[1]],
          date |-> ts[1].date,
          format_name |-> ts[1].format_name,
          pct_map |-> [card \in UNION {DOMAIN ts[i].pct_map : i \in DOMAIN ts} |->
                         RDiv(RSum([i \in DOMAIN ts |-> Get(ts[i].pct_map, card, Zero)]),
                              Int2R(Len(ts)))],
          name_map |-> ts[1].name_map]

CombineTournamentData(ts) ==
    IF Len(ts) = 1 THEN ts[1]
    ELSE
    LET base == ts[1]
        all_cards == UNION {DOMAIN ts[i].pct_map : i \in DOMAIN ts}
        values(card) == [i \in DOMAIN ts |-> Get(ts[i].pct_map, card, Zero)]
        non_zero_values(card) == SelectSeq(values(card), LAMBDA v : RGt(v, Zero))
        named == {c \in all_cards : \E i \in DOMAIN ts : c \in DOMAIN ts[i].name_map}
        first_named(card) ==
            CHOOSE i \in DOMAIN ts :
                /\ card \in DOMAIN ts[i].name_map
                /\ \A j \in 1..(i - 1) : card \notin DOMAIN ts[j].name_map
    IN  [tournament_names |-> Concat([i \in DOMAIN ts |-> ts[i].tournament_names]),
         date |-> base.date,
         format_name |-> base.format_name,
         pct_map |-> [card \in all_cards |->
                        LET nz == non_zero_values(card)
                        IN  IF nz # <<>>
                            THEN RDiv(RSum(nz), Int2R(Len(nz)))
                            ELSE Zero],
         name_map |-> [card \in named |-> ts[first_named(card)].name_map[card]]]

\* The weekend groups of raw_data, most recent weekend first, then the
\* observations without a date in their original order
GroupByWeekend(raw_data, order) ==
    [i \in 1..Len(order) |->
        CombineTournamentData(
            SelectSeq(raw_data, LAMBDA d : GetWeekendKey(d.date) = Some(order[i])))]
    \o SelectSeq(raw_data, LAMBDA d : IsNone(GetWeekendKey(d.date)))

WeekendKeys(raw_data) ==
    {Val(GetWeekendKey(raw_data[i].date)) :
        i \in {j \in DOMAIN raw_data : ~IsNone(GetWeekendKey(raw_data[j].date))}}

\* Fault: the weekend keys are sorted without reverse=True
GroupedOldestFirst(raw_data) == GroupByWeekend(raw_data, SetToAscSeq(WeekendKeys(raw_data)))

Grouped(raw_data) == GroupByWeekend(raw_data, SetToDescSeq(WeekendKeys(raw_data)))

LoadGroupedTournamentData(ts, reps, cache) ==
    Grouped(LoadAllTournamentData(ts, reps, cache))

-----------------------------------------------------------------------------
(* The per-event files and their parsing *)

\* A card uid "Name::SET::NNN" is 1000 * printing + 100 + name, so that
\* uid.split('::', 1)[0] is the name below
NamePart(uid) == (uid % 1000) - 100

\* CardCanonicalizer.synonyms and .name_to_canonical after _load: 1101 is a
\* second printing of 101, the name 1 is canonically 101, and every canonical
\* uid resolves to itself
Synonyms == (1101 :> 101) @@ (101 :> 101)
NameToCanonical == (1 :> 101)

\* CardCanonicalizer.canonicalize(uid, name) -> <<result_uid, result_name>>
Canonicalize(uid, name) ==
    LET by_uid == IF IsNone(uid) THEN None ELSE Some(Get(Synonyms, Val(uid), Val(uid)))
        canonical_uid ==
            IF IsNone(by_uid) /\ ~IsNone(name)
            THEN Get([n \in DOMAIN NameToCanonical |-> Some(NameToCanonical[n])],
                     Val(name), None)
            ELSE by_uid
        canonical_name ==
            IF ~IsNone(canonical_uid) THEN Some(NamePart(Val(canonical_uid))) ELSE name
        result_uid ==
            IF ~IsNone(canonical_uid) THEN canonical_uid
            ELSE IF ~IsNone(uid) THEN uid ELSE name
        result_name == IF ~IsNone(canonical_name) THEN canonical_name ELSE name
    IN  <<result_uid, result_name>>

\* float(item.get('pct', 0.0) or 0.0): a number or a numeric string converts,
\* null / 0 / "" give 0.0, any other string raises ValueError
PctConverts(pct) == pct.kind # "text"
PctOf(pct) == IF pct.kind \in {"number", "numeric"} THEN pct.val ELSE Zero

EmptyExtract == [pct_map |-> EmptyMap, name_map |-> EmptyMap, raised |-> FALSE]

\* Fault: the running sum is not clamped
ClampNothing(x) == x

\* min(100.0, ...)
ClampUsage(x) == RMin(Int2R(100), x)

\* One iteration of the loop of _extract_pct_map
ExtractItem(acc, item) ==
    IF acc.raised THEN acc
    ELSE IF item.kind # "object" THEN [acc EXCEPT !.raised = TRUE]
    ELSE
    LET display_name == item.name
        key == IF ~IsNone(item.uid) THEN item.uid ELSE display_name
    IN  IF IsNone(key) THEN acc
        ELSE IF ~PctConverts(item.pct) THEN [acc EXCEPT !.raised = TRUE]
        ELSE
        LET pct == PctOf(item.pct)
            canon == Canonicalize(item.uid, display_name)
            canonical_key == IF IsNone(canon[1]) THEN Val(key) ELSE Val(canon[1])
            canonical_name == canon[2]
            summed == ClampUsage(RAdd(Get(acc.pct_map, canonical_key, Zero), pct))
        IN  [pct_map |-> (canonical_key :> summed) @@ acc.pct_map,
             name_map |->
                IF ~IsNone(canonical_name)
                THEN (canonical_key :> Val(canonical_name)) @@ acc.name_map
                ELSE IF ~IsNone(display_name)
                THEN acc.name_map @@ (canonical_key :> Val(display_name))
                ELSE acc.name_map,
             raised |-> FALSE]

RECURSIVE ExtractItems(_, _)
ExtractItems(acc, items) ==
    IF items = <<>> THEN acc
    ELSE ExtractItems(ExtractItem(acc, Head(items)), Tail(items))

\* _extract_pct_map(master): master.get('items', []) raises on a value that
\* is not an object and the loop raises on an `items` that cannot be iterated
ExtractPctMap(master) ==
    CASE master.kind = "object" -> ExtractItems(EmptyExtract, master.items)
      [] master.kind = "no-items" -> EmptyExtract
      [] OTHER -> [EmptyExtract EXCEPT !.raised = TRUE]

\* _load_master_for: None for a missing or unparseable master.json, else the
\* parsed value whatever its shape
LoadMasterFor(file) ==
    IF file.master.kind \in {"missing", "unparseable"} THEN None ELSE Some(file.master)

\* bool(master) of a parsed value: {}, [], null, 0 and "" are falsy
Truthy(master) == ~IsNone(master) /\ Val(master).kind # "falsy"

\* The metadata part of _load_tournament_metadata -> <<date, format_name>>;
\* every exception of it is swallowed
ReadMeta(meta) ==
    IF meta.kind # "object" THEN <<None, <<>>>>
    ELSE <<IF meta.start = "iso" THEN Some(meta.day) ELSE None, meta.format>>

\* _load_tournament_metadata(tournament) on the files of the event; `raised`
\* when an exception leaves the function
ReadTournament(file) ==
    LET meta == ReadMeta(file.meta)
        master == LoadMasterFor(file)
        extracted == IF Truthy(master) THEN ExtractPctMap(Val(master)) ELSE EmptyExtract
    IN  [date |-> meta[1],
         format_name |-> meta[2],
         pct_map |-> extracted.pct_map,
         name_map |-> extracted.name_map,
         decks |-> EmptyMap,
         raised |-> extracted.raised]

\* The reports of the events as _load_tournament_metadata reads them
ReadAll(fs) == [e \in DOMAIN fs |-> ReadTournament(fs[e])]
ReadRaises(fs) == \E e \in DOMAIN fs : ReadTournament(fs[e]).raised
ReportsOf(fs) ==
    [e \in DOMAIN fs |->
        [date |-> ReadAll(fs)[e].date, format_name |-> ReadAll(fs)[e].format_name,
         pct_map |-> ReadAll(fs)[e].pct_map, name_map |-> ReadAll(fs)[e].name_map,
         decks |-> EmptyMap]]

-----------------------------------------------------------------------------
(* Rotation Filter *)

\* A formatName is a sequence of characters; None and "" are both <<>>.
RECURSIVE ReplaceDashes(_)
ReplaceDashes(s) ==
    IF s = <<>> THEN <<>>
    ELSE <<IF Head(s) \in {"em-dash", "en-dash"} THEN "-" ELSE Head(s)>>
            \o ReplaceDashes(Tail(s))

RECURSIVE ReplaceAnd(_)
ReplaceAnd(s) ==
    IF Len(s) < 5 THEN s
    ELSE IF SubSeq(s, 1, 5) = <<" ", "a", "n", "d", " ">>
         THEN <<" ", "&", " ">> \o ReplaceAnd(SubSeq(s, 6, Len(s)))
         ELSE <<Head(s)>> \o ReplaceAnd(Tail(s))

RECURSIVE BeforeDash(_)
BeforeDash(s) ==
    IF s = <<>> \/ Head(s) = "-" THEN <<>>
    ELSE <<Head(s)>> \o BeforeDash(Tail(s))

RECURSIVE LStrip(_)
LStrip(s) == IF s # <<>> /\ Head(s) = " " THEN LStrip(Tail(s)) ELSE s

RECURSIVE RStrip(_)
RStrip(s) ==
    IF s # <<>> /\ s[Len(s)] = " " THEN RStrip(SubSeq(s, 1, Len(s) - 1)) ELSE s

\* the prefix, or None (here <<>>: an empty prefix is None as well)
NormalizeRotationPrefix(format_name) ==
    IF format_name = <<>> THEN <<>>
    ELSE RStrip(LStrip(BeforeDash(ReplaceAnd(ReplaceDashes(format_name)))))

RECURSIVE FirstPrefix(_)
FirstPrefix(td) ==
    IF td = <<>> THEN <<>>
    ELSE LET p == NormalizeRotationPrefix(Head(td).format_name)
         IN  IF p # <<>> THEN p ELSE FirstPrefix(Tail(td))

\* Fault: two observations are enough for the filter to apply
FilterFromTwo(td) ==
    IF FirstPrefix(td) = <<>> THEN td
    ELSE IF Len(SelectSeq(td, LAMBDA d :
                    NormalizeRotationPrefix(d.format_name) \in {FirstPrefix(td), <<>>})) >= 2
         THEN SelectSeq(td, LAMBDA d :
                    NormalizeRotationPrefix(d.format_name) \in {FirstPrefix(td), <<>>})
         ELSE td

\* Fault: observations without a prefix are dropped with the other rotations
FilterDropsUnlabelled(td) ==
    IF FirstPrefix(td) = <<>> THEN td
    ELSE IF Len(SelectSeq(td, LAMBDA d :
                    NormalizeRotationPrefix(d.format_name) \in {FirstPrefix(td), <<>>})) >= 3
         THEN SelectSeq(td, LAMBDA d :
                    NormalizeRotationPrefix(d.format_name) = FirstPrefix(td))
         ELSE td

\* Fault: of the observations without a prefix, only those without a
\* formatName are kept
FilterKeepsBlankOnly(td) ==
    IF FirstPrefix(td) = <<>> THEN td
    ELSE IF Len(SelectSeq(td, LAMBDA d :
                    NormalizeRotationPrefix(d.format_name) \in {FirstPrefix(td), <<>>})) >= 3
         THEN SelectSeq(td, LAMBDA d :
                    \/ NormalizeRotationPrefix(d.format_name) = FirstPrefix(td)
                    \/ d.format_name = <<>>)
         ELSE td

FilterByCurrentRotation(td) ==
    IF td = <<>> THEN td
    ELSE
    LET current_prefix == FirstPrefix(td)
        filtered_events ==
            SelectSeq(td, LAMBDA d :
                LET prefix == NormalizeRotationPrefix(d.format_name)
                IN  prefix = current_prefix \/ prefix = <<>>)
    IN  IF current_prefix = <<>> THEN td
        ELSE IF Len(filtered_events) >= 3 THEN filtered_events ELSE td

-----------------------------------------------------------------------------
(* Helpers shared by the scorers *)

\* Observation idx (0-based, 0 = most recent) of the corpus: pct_map.get(key, 0.0)
Usage(td, key, idx) == Get(td[idx + 1].pct_map, key, Zero)

\* _get_all_card_keys: computed on the first call of the run, then reused
\* for every later call whatever corpus is passed.
GetAllCardKeys(td, cache) ==
    IF IsNone(cache) THEN UNION {DOMAIN td[i].pct_map : i \in DOMAIN td}
    ELSE Val(cache)

RECURSIVE GetDisplayName(_, _)
GetDisplayName(key, td) ==
    IF td = <<>> THEN key
    ELSE IF key \in DOMAIN Head(td).name_map THEN Head(td).name_map[key]
    ELSE GetDisplayName(key, Tail(td))

\* find_archetype_for_card without its cache: first event of `names`, in
\* order, one of whose decks holds a card of that name
RECURSIVE ScanDecks(_, _, _)
ScanDecks(card_name, names, reps) ==
    IF names = <<>> THEN NoArch
    ELSE IF card_name \in DOMAIN reps[Head(names)].decks
         THEN reps[Head(names)].decks[card_name]
         ELSE ScanDecks(card_name, Tail(names), reps)

\* find_archetype_for_card_grouped
FindArchetypeForCardGrouped(card_name, td, reps, cache) ==
    IF card_name \in DOMAIN cache THEN cache[card_name]
    ELSE ScanDecks(card_name, Concat([i \in DOMAIN td |-> td[i].tournament_names]), reps)

\* _archetype_cache after the cards `names` have been looked up over td
CacheAfter(names, td, reps, cache) ==
    [n \in (DOMAIN cache) \cup names |-> FindArchetypeForCardGrouped(n, td, reps, cache)]

OrUnspecified(arch) == IF arch \in {NoArch, ""} THEN UNSPECIFIED ELSE arch

\* list.sort(key=...), a stable sort, with Before(a, b) iff key(a) < key(b):
\* an element goes after those that sort before it and after the equal ones
\* that precede it in the list
SortBy(s, Before(_, _)) ==
    LET pos == [i \in DOMAIN s |->
                  Cardinality({j \in DOMAIN s :
                      \/ Before(s[j], s[i])
                      \/ ~Before(s[i], s[j]) /\ j < i})]
    IN  [k \in DOMAIN s |-> s[CHOOSE i \in DOMAIN s : pos[i] = k - 1]]

\* Fault: the loop without its per-archetype count
ApplyCapsNoCount(candidates, cap_per_arch, max_limit, result) ==
    result \o SubSeq(candidates, 1, Min(Len(candidates), max_limit - Len(result)))

\* Fault: the loop counts against the default cap, whatever cap it is given
RECURSIVE ApplyCapsDefault(_, _, _, _)
ApplyCapsDefault(candidates, cap_per_arch, max_limit, result) ==
    IF candidates = <<>> THEN result
    ELSE IF Cardinality({i \in DOMAIN result :
                            result[i].archetype = Head(candidates).archetype}) < 2
            /\ Len(result) < max_limit
         THEN ApplyCapsDefault(Tail(candidates), cap_per_arch, max_limit,
                               Append(result, Head(candidates)))
         ELSE ApplyCapsDefault(Tail(candidates), cap_per_arch, max_limit, result)

\* Fault: the loop without its length limit
RECURSIVE ApplyCapsNoLimit(_, _, _, _)
ApplyCapsNoLimit(candidates, cap_per_arch, max_limit, result) ==
    IF candidates = <<>> THEN result
    ELSE IF Cardinality({i \in DOMAIN result :
                            result[i].archetype = Head(candidates).archetype}) < cap_per_arch
         THEN ApplyCapsNoLimit(Tail(candidates), cap_per_arch, max_limit,
                               Append(result, Head(candidates)))
         ELSE ApplyCapsNoLimit(Tail(candidates), cap_per_arch, max_limit, result)

\* The per-archetype cap loop shared by the three capped scorers
RECURSIVE ApplyCaps(_, _, _, _)
ApplyCaps(candidates, cap_per_arch, max_limit, result) ==
    IF candidates = <<>> THEN result
    ELSE LET candidate == Head(candidates)
             arch == candidate.archetype
             count == Cardinality({i \in DOMAIN result : result[i].archetype = arch})
         IN  IF count < cap_per_arch /\ Len(result) < max_limit
             THEN ApplyCaps(Tail(candidates), cap_per_arch, max_limit,
                            Append(result, candidate))
             ELSE ApplyCaps(Tail(candidates), cap_per_arch, max_limit, result)

\* Candidates are built iterating the set of card keys; the model iterates
\* it in ascending key order.
KeysInOrder(keys) == SetToAscSeq(keys)

\* The candidates loop: Cand(key) is None when the key is skipped
Vals(found) == [i \in DOMAIN found |-> Val(found[i])]
Candidates(keys, Cand(_)) ==
    Vals(SelectSeq([i \in DOMAIN keys |-> Cand(keys[i])], LAMBDA c : ~IsNone(c)))

Items(s, Item(_)) == [i \in DOMAIN s |-> Item(s[i])]

-----------------------------------------------------------------------------
(* Crashed scorer ("chopped and washed") *)

\* 1000 * 0.5 ** (r / 30) for r = 0..29, rounded
HalfLifeTable ==
    <<1000, 977, 955, 933, 912, 891, 871, 851, 831, 812,
      794, 776, 758, 741, 724, 707, 691, 675, 660, 645,
      630, 616, 602, 588, 574, 561, 548, 536, 524, 512>>

RECURSIVE Pow2(_)
Pow2(n) == IF n <= 0 THEN 1 ELSE 2 * Pow2(n - 1)

\* _recency_weight: 0.5 ** (days_diff / RECENT_WEIGHT_HALF_LIFE_DAYS)
RecencyWeight(days_diff) ==
    LET q == days_diff \div RECENT_WEIGHT_HALF_LIFE_DAYS
        r == days_diff % RECENT_WEIGHT_HALF_LIFE_DAYS
        t == HalfLifeTable[r + 1]
    IN  IF q >= 0 THEN Rat(t \div Pow2(q), 1000)
        ELSE Rat(t * Pow2(-q), 1000)

\* Fault: the sustain loop looks at one further observation only
SustainPair(td, key, sustain_idx, stop, count, sum) ==
    IF sustain_idx >= stop THEN <<count, sum>>
    ELSE IF RGe(Usage(td, key, sustain_idx), RMul(MIN_CHOPPED_PEAK_PCT, <<7, 10>>))
         THEN <<count + 1, RAdd(sum, Usage(td, key, sustain_idx))>>
         ELSE <<count, sum>>

\* The run of observations sustaining a peak that starts at peak_start_idx:
\* <<sustained_tournaments, sustained_sum>>
RECURSIVE Sustain(_, _, _, _, _, _)
Sustain(td, key, sustain_idx, stop, count, sum) ==
    IF sustain_idx >= stop THEN <<count, sum>>
    ELSE LET sustain_pct == Usage(td, key, sustain_idx)
         IN  IF RGe(sustain_pct, RMul(MIN_CHOPPED_PEAK_PCT, <<7, 10>>))
             THEN Sustain(td, key, sustain_idx + 1, stop, count + 1, RAdd(sum, sustain_pct))
             ELSE <<count, sum>>

\* One iteration of the peak loop: None when a quality filter rejects the
\* peak, else the peak's crash score and figures
CrashScore(latest_pct, base_score) ==
    IF RLe(latest_pct, Zero) THEN RMul(base_score, <<3, 2>>) ELSE base_score

PeakScored(latest_pct, sustained_tournaments, sustained_avg, abs_drop, rel_drop, steepness_factor, peak_recency) ==
    IF RLt(abs_drop, MIN_CHOPPED_DROP_ABS) THEN None
    ELSE IF RLt(rel_drop, MIN_CHOPPED_DROP_REL) THEN None
    ELSE Some([crash_score |->
                    CrashScore(latest_pct,
                        RSum(<<RMul(abs_drop, <<2, 1>>),
                               RMul(rel_drop, sustained_avg),
                               RMul(steepness_factor, <<3, 1>>),
                               Int2R(sustained_tournaments * 2),
                               RMul(peak_recency, <<5, 1>>)>>)),
               peak_pct |-> sustained_avg,
               peak_tournaments |-> sustained_tournaments,
               abs_drop |-> abs_drop,
               rel_drop |-> rel_drop,
               steepness |-> steepness_factor])

DaysSincePeak(peak_date, peak_start_idx, now) ==
    IF IsNone(peak_date) THEN peak_start_idx * 7 ELSE now - Val(peak_date)

PeakDropped(td, peak_start_idx, now, latest_pct, sustained_tournaments, sustained_avg, abs_drop) ==
    PeakScored(latest_pct, sustained_tournaments, sustained_avg, abs_drop,
               RDiv(abs_drop, sustained_avg),
               RDiv(abs_drop, Int2R(Max(peak_start_idx, 1))),
               RecencyWeight(DaysSincePeak(td[peak_start_idx + 1].date, peak_start_idx, now)))

PeakSustained(td, peak_start_idx, now, latest_pct, sustained_tournaments, sustained_avg) ==
    IF sustained_tournaments < MIN_SUSTAINED_PEAK_TOURNAMENTS THEN None
    ELSE PeakDropped(td, peak_start_idx, now, latest_pct, sustained_tournaments,
                     sustained_avg, RSub(sustained_avg, latest_pct))

PeakRun(td, peak_start_idx, now, latest_pct, run) ==
    PeakSustained(td, peak_start_idx, now, latest_pct, run[1], RDiv(run[2], Int2R(run[1])))

\* Fault: the sustain loop runs to the end of the corpus
SustainedToEnd(td, key, peak_start_idx) ==
    Sustain(td, key, peak_start_idx + 1, Len(td), 1, Usage(td, key, peak_start_idx))

\* The sustain loop of the peak at peak_start_idx: sustain_idx ranges over
\* range(peak_start_idx + 1, min(len, peak_start_idx + MIN_SUSTAINED_PEAK_TOURNAMENTS + 2))
SustainedRun(td, key, peak_start_idx) ==
    Sustain(td, key, peak_start_idx + 1,
            Min(Len(td), peak_start_idx + MIN_SUSTAINED_PEAK_TOURNAMENTS + 2),
            1, Usage(td, key, peak_start_idx))

PeakAt(td, key, peak_start_idx, now, peak_pct) ==
    IF RLt(peak_pct, MIN_CHOPPED_PEAK_PCT) THEN None
    ELSE PeakRun(td, peak_start_idx, now, Usage(td, key, 0),
                 SustainedRun(td, key, peak_start_idx))

PeakInfo(td, key, peak_start_idx, now) ==
    PeakAt(td, key, peak_start_idx, now, Usage(td, key, peak_start_idx))

\* A later peak replaces the best so far only when it scores strictly higher
\* (best_crash_score starts at 0.0)
Better(info, best) ==
    IF ~IsNone(info)
       /\ RGt(Val(info).crash_score, IF IsNone(best) THEN Zero ELSE Val(best).crash_score)
    THEN info ELSE best

\* The peak loop: the best-scoring peak; None when no peak scores above 0
RECURSIVE BestPeak(_, _, _, _, _)
BestPeak(td, key, peak_start_idx, now, best) ==
    IF peak_start_idx >= Min(Len(td), 1 + PEAK_LOOKBACK) THEN best
    ELSE BestPeak(td, key, peak_start_idx + 1, now,
                  Better(PeakInfo(td, key, peak_start_idx, now), best))

ChoppedAtPeak(key, name, latest_pct, archetype, best) ==
    IF IsNone(best) THEN None
    ELSE Some([key |-> key,
               name |-> name,
               crash_score |-> Val(best).crash_score,
               latest |-> latest_pct,
               archetype |-> archetype,
               peak_pct |-> Val(best).peak_pct,
               peak_tournaments |-> Val(best).peak_tournaments,
               abs_drop |-> Val(best).abs_drop,
               rel_drop |-> Val(best).rel_drop])

\* Fault: the candidate loop without the `name in BASIC_ENERGY` test
ChoppedNamedWithEnergy(td, key, name, exclude_names, now, reps, cache) ==
    IF key \in exclude_names THEN None
    ELSE IF RGt(Usage(td, key, 0), MAX_CHOPPED_RECENT_PCT)
            \/ RGt(IF Len(td) > 1 THEN Usage(td, key, 1) ELSE Zero, MAX_CHOPPED_RECENT_PCT)
         THEN None
    ELSE ChoppedAtPeak(key, name, Usage(td, key, 0),
                       OrUnspecified(FindArchetypeForCardGrouped(name, td, reps, cache)),
                       BestPeak(td, key, 1, now, None))

ChoppedNamed(td, key, name, exclude_names, now, reps, cache) ==
    IF key \in exclude_names \/ name \in BASIC_ENERGY THEN None
    ELSE IF RGt(Usage(td, key, 0), MAX_CHOPPED_RECENT_PCT)
            \/ RGt(IF Len(td) > 1 THEN Usage(td, key, 1) ELSE Zero, MAX_CHOPPED_RECENT_PCT)
         THEN None
    ELSE ChoppedAtPeak(key, name, Usage(td, key, 0),
                       OrUnspecified(FindArchetypeForCardGrouped(name, td, reps, cache)),
                       BestPeak(td, key, 1, now, None))

ChoppedCandidate(td, key, exclude_names, now, reps, cache) ==
    ChoppedNamed(td, key, GetDisplayName(key, td), exclude_names, now, reps, cache)

ChoppedBefore(a, b) ==
    \/ RGt(a.crash_score, b.crash_score)
    \/ /\ a.crash_score = b.crash_score
       /\ \/ RGt(a.abs_drop, b.abs_drop)
          \/ a.abs_drop = b.abs_drop /\ a.name < b.name

ChoppedItem(c) ==
    [name |-> c.name,
     uid |-> c.key,
     archetype |-> c.archetype,
     peak_usage |-> Round1(c.peak_pct),
     current_usage |-> Round1(c.latest),
     drop_amount |-> Round1(c.abs_drop),
     crash_severity |-> Round2(c.rel_drop),
     sustained_peak |-> c.peak_tournaments]

NoResult(cache, exc) == [result |-> <<>>, cache |-> cache, raised |-> exc]

\* What a capped scorer returns for its candidates: they are sorted, capped
\* per archetype and formatted; every candidate's archetype is in the cache
Ranked(candidates, Before(_, _), Item(_), max_limit, cap_per_arch, td, reps, cache) ==
    [result |-> Items(ApplyCaps(SortBy(candidates, Before), cap_per_arch, max_limit, <<>>),
                      Item),
     cache |-> CacheAfter({candidates[i].name : i \in DOMAIN candidates}, td, reps, cache),
     raised |-> FALSE]

\* The candidates of compute_chopped_and_washed, before they are sorted
ChoppedCandidates(td, keys, exclude_names, now, reps, cache) ==
    Candidates(KeysInOrder(keys),
               LAMBDA key : ChoppedCandidate(td, key, exclude_names, now, reps, cache))

\* compute_chopped_and_washed; `keys` is _get_all_card_keys(tournament_data).
\* Returns the list, the archetype cache it leaves behind and whether an
\* exception escaped.
ComputeChoppedAndWashed(td, keys, exclude_names, max_limit, cap_per_arch, now, reps, cache) ==
    IF td = <<>> THEN NoResult(cache, FALSE)
    ELSE Ranked(ChoppedCandidates(td, keys, exclude_names, now, reps, cache),
                ChoppedBefore, ChoppedItem, max_limit, cap_per_arch, td, reps, cache)

-----------------------------------------------------------------------------
(* Rising scorer *)

Mean(s) == RDiv(RSum(s), Int2R(Len(s)))

\* momentum_score: absolute growth times relative growth capped at 5 (None
\* stands for float('inf')), with the acceleration and consistency bonuses
Accelerated(base, distant_past, recent_avg, distant_avg) ==
    IF distant_past # <<>> /\ RGt(recent_avg, distant_avg)
    THEN RMul(base, RAdd(One, RMin(RDiv(RSub(recent_avg, distant_avg),
                                        RMax(distant_avg, One)), One)))
    ELSE base

StillRising(score, recent_past) ==
    IF Len(recent_past) >= 2 /\ RGt(RSub(recent_past[1], recent_past[2]), Zero)
    THEN RMul(score, <<6, 5>>)
    ELSE score

MomentumScore(delta_abs, delta_rel, recent_past, distant_past, recent_avg, distant_avg) ==
    StillRising(
        Accelerated(RMul(delta_abs, IF IsNone(delta_rel) THEN <<5, 1>>
                                    ELSE RMin(Val(delta_rel), <<5, 1>>)),
                    distant_past, recent_avg, distant_avg),
        recent_past)

RiseGrown(key, name, archetype, latest, recent_past, distant_past, recent_avg, distant_avg, delta_abs, delta_rel) ==
    IF RLt(delta_abs, MIN_RISE_DELTA_ABS) THEN None
    ELSE IF ~IsNone(delta_rel) /\ RLt(Val(delta_rel), MIN_RISE_DELTA_REL) THEN None
    ELSE IF IsNone(delta_rel) /\ RLt(latest, RMul(MIN_RISE_CURRENT_PCT, <<6, 5>>)) THEN None
    ELSE Some([name |-> name,
               uid |-> key,
               momentum_score |-> MomentumScore(delta_abs, delta_rel, recent_past,
                                                distant_past, recent_avg, distant_avg),
               latest |-> latest,
               recent_avg |-> recent_avg,
               delta_abs |-> delta_abs,
               delta_rel |-> IF IsNone(delta_rel) THEN <<10, 1>>
                             ELSE RMin(Val(delta_rel), <<10, 1>>),
               archetype |-> archetype])

RiseAveraged(key, name, archetype, latest, recent_past, distant_past, recent_avg, distant_avg) ==
    RiseGrown(key, name, archetype, latest, recent_past, distant_past, recent_avg,
              distant_avg, RSub(latest, recent_avg),
              IF RGt(recent_avg, Zero) THEN Some(RDiv(latest, recent_avg)) ELSE None)

RiseSplit(key, name, archetype, latest, recent_past, distant_past, recent_avg) ==
    RiseAveraged(key, name, archetype, latest, recent_past, distant_past, recent_avg,
                 IF distant_past # <<>> THEN Mean(distant_past) ELSE recent_avg)

\* Fault: cards without any earlier usage are not skipped
RiseHistoryNewlyLegal(key, name, archetype, latest, older_values) ==
    IF RLt(latest, MIN_RISE_CURRENT_PCT) THEN None
    ELSE IF Len(older_values) < 2 THEN None
    ELSE RiseSplit(key, name, archetype, latest, Take(older_values, 2),
                   Drop(older_values, 2), Mean(Take(older_values, 2)))

RiseHistory(key, name, archetype, latest, older_values) ==
    IF RLt(latest, MIN_RISE_CURRENT_PCT) THEN None
    ELSE IF older_values # <<>> /\ \A i \in DOMAIN older_values : RLe(older_values[i], Zero)
         THEN None
    ELSE IF Len(older_values) < 2 THEN None
    ELSE RiseSplit(key, name, archetype, latest, Take(older_values, 2),
                   Drop(older_values, 2), Mean(Take(older_values, 2)))

RiseValues(key, name, archetype, values) ==
    RiseHistory(key, name, archetype, values[1], Tail(values))

\* Fault: the candidate loop without the `key in exclude_names` test
RiseNamedNoExclusion(td, key, name, exclude_names, reps, cache) ==
    IF name \in BASIC_ENERGY THEN None
    ELSE RiseValues(key, name,
                    OrUnspecified(FindArchetypeForCardGrouped(name, td, reps, cache)),
                    [i \in DOMAIN td |-> Usage(td, key, i - 1)])

RiseNamed(td, key, name, exclude_names, reps, cache) ==
    IF key \in exclude_names \/ name \in BASIC_ENERGY THEN None
    ELSE RiseValues(key, name,
                    OrUnspecified(FindArchetypeForCardGrouped(name, td, reps, cache)),
                    [i \in DOMAIN td |-> Usage(td, key, i - 1)])

RiseCandidate(td, key, exclude_names, reps, cache) ==
    RiseNamed(td, key, GetDisplayName(key, td), exclude_names, reps, cache)

RiseBefore(a, b) ==
    \/ RGt(a.momentum_score, b.momentum_score)
    \/ /\ a.momentum_score = b.momentum_score
       /\ \/ RGt(a.latest, b.latest)
          \/ a.latest = b.latest /\ a.name < b.name

\* Fault: the growth ratio is reported under the cap of the momentum score
RiseItemCapped(c) ==
    [name |-> c.name,
     uid |-> c.uid,
     archetype |-> c.archetype,
     current_usage |-> Round1(c.latest),
     momentum_score |-> Round2(c.momentum_score),
     growth_factor |-> Round1(RMin(c.delta_rel, <<5, 1>>))]

RiseItem(c) ==
    [name |-> c.name,
     uid |-> c.uid,
     archetype |-> c.archetype,
     current_usage |-> Round1(c.latest),
     momentum_score |-> Round2(c.momentum_score),
     growth_factor |-> Round1(c.delta_rel)]

\* The candidates of compute_on_the_rise, before they are sorted
RiseCandidates(td, keys, exclude_names, reps, cache) ==
    Candidates(KeysInOrder(keys),
               LAMBDA key : RiseCandidate(td, key, exclude_names, reps, cache))

\* Fault: compute_on_the_rise without its two history gates, the test of
\* len(tournament_data) against MIN_RISE_TOURNAMENTS and the test
\* `len(older_values) < 2`; over a single observation recent_past is empty and
\* sum(recent_past) / len(recent_past) raises ZeroDivisionError
RiseHistoryUngated(key, name, archetype, latest, older_values) ==
    IF RLt(latest, MIN_RISE_CURRENT_PCT) THEN None
    ELSE IF older_values # <<>> /\ \A i \in DOMAIN older_values : RLe(older_values[i], Zero)
         THEN None
    ELSE RiseSplit(key, name, archetype, latest, Take(older_values, 2),
                   Drop(older_values, 2), Mean(Take(older_values, 2)))

RiseNamedUngated(td, key, name, exclude_names, reps, cache) ==
    IF key \in exclude_names \/ name \in BASIC_ENERGY THEN None
    ELSE RiseHistoryUngated(key, name,
                            OrUnspecified(FindArchetypeForCardGrouped(name, td, reps, cache)),
                            Usage(td, key, 0),
                            [i \in 1..(Len(td) - 1) |-> Usage(td, key, i)])

ComputeOnTheRiseUngated(td, keys, exclude_names, max_limit, cap_per_arch, reps, cache) ==
    IF td = <<>> THEN NoResult(cache, FALSE)
    ELSE IF Len(td) = 1
            /\ \E key \in keys :
                    /\ key \notin exclude_names
                    /\ GetDisplayName(key, td) \notin BASIC_ENERGY
                    /\ RGe(Usage(td, key, 0), MIN_RISE_CURRENT_PCT)
         THEN NoResult(cache, TRUE)
    ELSE Ranked(Candidates(KeysInOrder(keys),
                    LAMBDA key : RiseNamedUngated(td, key, GetDisplayName(key, td),
                                                  exclude_names, reps, cache)),
                RiseBefore, RiseItem, max_limit, cap_per_arch, td, reps, cache)

\* compute_on_the_rise
ComputeOnTheRise(td, keys, exclude_names, max_limit, cap_per_arch, reps, cache) ==
    IF td = <<>> \/ Len(td) < MIN_RISE_TOURNAMENTS THEN NoResult(cache, FALSE)
    ELSE Ranked(RiseCandidates(td, keys, exclude_names, reps, cache),
                RiseBefore, RiseItem, max_limit, cap_per_arch, td, reps, cache)

-----------------------------------------------------------------------------
(* Leaders scorer *)

\* ranking_map of one observation: cards with pct > 0 sorted by pct,
\* descending, equal ones in the order of the usage report (the model lists a
\* report in ascending key order); rank 1 is the highest
RankingMap(data) ==
    LET ranked == {k \in DOMAIN data.pct_map : RGt(data.pct_map[k], Zero)}
    IN  [k \in ranked |->
            1 + Cardinality({k2 \in ranked :
                    \/ RGt(data.pct_map[k2], data.pct_map[k])
                    \/ data.pct_map[k2] = data.pct_map[k] /\ k2 < k})]

\* The figures of one card over the corpus, before any threshold is applied
LeaderScored(name, key, avg_usage, avg_ranking, appearance_rate, top_5_rate, top_1_rate, appeared_count) ==
    [name |-> name,
     uid |-> key,
     avg_usage |-> avg_usage,
     avg_ranking |-> avg_ranking,
     appearance_rate |-> appearance_rate,
     top_5_rate |-> top_5_rate,
     top_1_rate |-> top_1_rate,
     leader_score |->
        RSum(<<RMul(avg_usage, <<10, 1>>),
               RMul(RSub(<<11, 1>>, avg_ranking), <<8, 1>>),
               RMul(top_5_rate, <<15, 1>>),
               RMul(top_1_rate, <<10, 1>>),
               RMul(appearance_rate, <<5, 1>>)>>),
     appeared_count |-> appeared_count]

RateOf(valid_rankings, Hit(_)) ==
    IF valid_rankings = <<>> THEN Zero
    ELSE Rat(Len(SelectSeq(valid_rankings, Hit)), Len(valid_rankings))

LeaderFigures(td, key, usage_values, valid_rankings) ==
    LeaderScored(GetDisplayName(key, td), key,
                 RDiv(RSum(usage_values), Int2R(Len(usage_values))),
                 IF valid_rankings = <<>> THEN Zero
                 ELSE RDiv(RSum([i \in DOMAIN valid_rankings |-> Int2R(valid_rankings[i])]),
                           Int2R(Len(valid_rankings))),
                 Rat(Len(valid_rankings), Len(td)),
                 RateOf(valid_rankings, LAMBDA r : r <= 5),
                 RateOf(valid_rankings, LAMBDA r : r = 1),
                 Len(valid_rankings))

\* rankings: the card's rank per observation, 999 when it was played but is
\* not ranked, 0 when it was not played
LeaderStat(td, key, tournament_rankings) ==
    LeaderFigures(td, key,
        [i \in DOMAIN td |-> Usage(td, key, i - 1)],
        SelectSeq([i \in DOMAIN td |->
                      IF key \in DOMAIN tournament_rankings[i]
                      THEN tournament_rankings[i][key]
                      ELSE IF RGt(Usage(td, key, i - 1), Zero) THEN 999 ELSE 0],
                  LAMBDA r : r > 0))

\* The part of compute_consistent_leaders that does not depend on the
\* thresholds: rankings and figures of every card key, in key order
LeaderStats(td, keys) ==
    LET tournament_rankings == [i \in DOMAIN td |-> RankingMap(td[i])]
        ks == KeysInOrder(keys)
    IN  [i \in DOMAIN ks |-> LeaderStat(td, ks[i], tournament_rankings)]

LeaderBefore(a, b) ==
    \/ RGt(a.leader_score, b.leader_score)
    \/ /\ a.leader_score = b.leader_score
       /\ \/ RLt(a.avg_ranking, b.avg_ranking)
          \/ a.avg_ranking = b.avg_ranking /\ a.name < b.name

LeaderItem(c) ==
    [name |-> c.name,
     uid |-> c.uid,
     avg_usage |-> Round1(c.avg_usage),
     avg_ranking |-> Round1(c.avg_ranking),
     top_5_rate |-> Round2(c.top_5_rate),
     appearance_rate |-> Round2(c.appearance_rate)]

\* compute_consistent_leaders; all_stats is LeaderStats(tournament_data, keys)
\* ([] for an empty corpus); max_avg_rank is an integer
ComputeConsistentLeaders(all_stats, max_limit, min_appearance_pct, min_avg_pct, max_avg_rank) ==
    Items(Take(SortBy(SelectSeq(all_stats, LAMBDA c :
                        /\ c.name \notin BASIC_ENERGY
                        /\ ~RLt(c.appearance_rate, min_appearance_pct)
                        /\ ~RLt(c.avg_usage, min_avg_pct)
                        /\ c.appeared_count > 0
                        /\ ~RGt(c.avg_ranking, Int2R(max_avg_rank))),
                      LeaderBefore),
               max_limit),
          LeaderItem)

-----------------------------------------------------------------------------
(* One-Offs scorer ("that day2'd?") *)

\* Archetype labels holding one of the established archetype names as a
\* substring ('Charizard Pidgeot', 'Dragapult Dusknoir', 'Terapagos Noctowl',
\* 'Gholdengo', 'Gardevoir', 'Roaring Moon')
Established(archetype) ==
    archetype \in {"Charizard Pidgeot", "Dragapult Dusknoir", "Terapagos Noctowl",
                   "Gholdengo", "Gardevoir", "Roaring Moon", "Gardevoir Jellicent"}

RECURSIVE FirstIndex(_, _, _)
FirstIndex(s, v, i) == IF s[i] = v THEN i ELSE FirstIndex(s, v, i + 1)

RECURSIVE RMaxSeq(_)
RMaxSeq(s) == IF Len(s) = 1 THEN s[1] ELSE RMax(s[1], RMaxSeq(Tail(s)))

\* experimental_score
ExperimentalScore(base_score, archetype) ==
    IF archetype \notin {NoArch, ""} /\ Established(archetype)
    THEN RMul(base_score, <<13, 10>>)
    ELSE base_score

Day2dBaseScore(n, recent_usage, max_usage, total_usage_sum, max_idx, consecutive_streaks) ==
    RSum(<<RMul(RDiv(RSub(MAX_DAY2D_TOTAL_USAGE_SUM, total_usage_sum),
                     MAX_DAY2D_TOTAL_USAGE_SUM), <<20, 1>>),
           RMul(RSub(One, RDiv(RSum(recent_usage), RMax(total_usage_sum, <<1, 10>>))),
                <<15, 1>>),
           RMul(RSub(One, Rat(consecutive_streaks * 3, 10)), <<10, 1>>),
           RMul(max_usage, <<5, 1>>),
           Int2R((n - max_idx) * 2)>>)

Day2dSpaced(n, key, name, archetype, recent_usage, max_usage, total_appearances, total_usage_sum, max_idx, appearance_indices, gaps) ==
    IF Len(appearance_indices) > 1
       /\ RLt(IF gaps # <<>>
              THEN RDiv(RSum([i \in DOMAIN gaps |-> Int2R(gaps[i])]), Int2R(Len(gaps)))
              ELSE Zero, <<2, 1>>)
    THEN None
    ELSE Some([name |-> name,
               uid |-> key,
               archetype |-> OrUnspecified(archetype),
               experimental_score |->
                    ExperimentalScore(
                        Day2dBaseScore(n, recent_usage, max_usage, total_usage_sum, max_idx,
                                       Len(SelectSeq(gaps, LAMBDA g : g = 1))),
                        archetype),
               peak_usage |-> max_usage,
               total_appearances |-> total_appearances,
               total_usage_sum |-> total_usage_sum,
               tournaments_since_peak |-> max_idx])

Day2dAppearances(n, key, name, archetype, recent_usage, max_usage, total_appearances, total_usage_sum, max_idx, appearance_indices) ==
    Day2dSpaced(n, key, name, archetype, recent_usage, max_usage, total_appearances,
                total_usage_sum, max_idx, appearance_indices,
                [i \in 1..(Len(appearance_indices) - 1) |->
                    appearance_indices[i + 1] - appearance_indices[i]])

Day2dCounted(n, key, name, archetype, all_usage, recent_usage, max_usage, meaningful_tournaments, total_appearances, total_usage_sum) ==
    IF total_appearances > MAX_DAY2D_TOTAL_APPEARANCES THEN None
    ELSE IF meaningful_tournaments > MAX_DAY2D_MEANINGFUL_TOURNAMENTS THEN None
    ELSE IF meaningful_tournaments = 0 THEN None
    ELSE IF RGt(total_usage_sum, MAX_DAY2D_TOTAL_USAGE_SUM) THEN None
    ELSE IF RLt(max_usage, MIN_DAY2D_MIN_APPEARANCE) THEN None
    ELSE IF total_appearances > 4 THEN None
    ELSE Day2dAppearances(n, key, name, archetype, recent_usage, max_usage,
            total_appearances, total_usage_sum,
            \* 0-based index of the first observation holding the peak
            FirstIndex(all_usage, max_usage, 1) - 1,
            \* 0-based indices of the meaningful appearances
            SetToAscSeq({i - 1 : i \in {j \in DOMAIN all_usage :
                                            RGe(all_usage[j], MIN_DAY2D_MIN_APPEARANCE)}}))

Day2dPeak(n, key, name, archetype, all_usage, recent_usage, max_usage) ==
    IF \E i \in DOMAIN recent_usage : RGt(recent_usage[i], MAX_DAY2D_RECENT_PCT) THEN None
    ELSE IF RGt(max_usage, MAX_DAY2D_PEAK_USAGE) THEN None
    ELSE Day2dCounted(n, key, name, archetype, all_usage, recent_usage, max_usage,
            Len(SelectSeq(all_usage, LAMBDA u : RGe(u, MIN_DAY2D_MIN_APPEARANCE))),
            Len(SelectSeq(all_usage, LAMBDA u : RGt(u, Zero))),
            RSum(all_usage))

Day2dUsage(n, key, name, archetype, all_usage) ==
    Day2dPeak(n, key, name, archetype, all_usage, Take(all_usage, 3), RMaxSeq(all_usage))

Day2dNamed(extended_data, key, name, exclude_names, reps, cache) ==
    IF key \in exclude_names \/ name \in BASIC_ENERGY THEN None
    ELSE Day2dUsage(Len(extended_data), key, name,
                    FindArchetypeForCardGrouped(name, extended_data, reps, cache),
                    [i \in DOMAIN extended_data |-> Usage(extended_data, key, i - 1)])

Day2dCandidate(extended_data, key, exclude_names, reps, cache) ==
    Day2dNamed(extended_data, key, GetDisplayName(key, extended_data), exclude_names,
               reps, cache)

Day2dBefore(a, b) ==
    \/ RGt(a.experimental_score, b.experimental_score)
    \/ /\ a.experimental_score = b.experimental_score
       /\ \/ RGt(a.peak_usage, b.peak_usage)
          \/ a.peak_usage = b.peak_usage /\ a.name < b.name

Day2dItem(c) ==
    [name |-> c.name,
     uid |-> c.uid,
     archetype |-> c.archetype,
     peak_usage |-> Round1(c.peak_usage),
     total_appearances |-> c.total_appearances,
     total_usage |-> Round1(c.total_usage_sum),
     tournaments_since_peak |-> c.tournaments_since_peak,
     experimental_score |-> Round2(c.experimental_score)]

\* The candidates of compute_that_day2d, before they are sorted
Day2dCandidates(extended_data, keys, exclude_names, reps, cache) ==
    Candidates(KeysInOrder(keys),
               LAMBDA key : Day2dCandidate(extended_data, key, exclude_names, reps, cache))

\* compute_that_day2d.  keys_cache and data_cache are the analyzer's and the
\* loader's caches as the earlier steps of the run left them.
Day2dOver(extended_data, keys, exclude_names, max_limit, cap_per_arch, reps, cache) ==
    IF extended_data = <<>> THEN NoResult(cache, FALSE)
    ELSE Ranked(Day2dCandidates(extended_data, keys, exclude_names, reps, cache),
                Day2dBefore, Day2dItem, max_limit, cap_per_arch, extended_data, reps, cache)

Day2dExtended(extended_data, exclude_names, max_limit, cap_per_arch, reps, keys_cache, cache) ==
    Day2dOver(extended_data,
              IF extended_data = <<>> THEN {} ELSE GetAllCardKeys(extended_data, keys_cache),
              exclude_names, max_limit, cap_per_arch, reps, cache)

ComputeThatDay2d(all_tournaments, exclude_names, max_limit, cap_per_arch, reps, data_cache, keys_cache, cache) ==
    Day2dExtended(
        LoadGroupedTournamentData(Take(all_tournaments, DAY2D_LOOKBACK_TOURNAMENTS),
                                  reps, data_cache),
        exclude_names, max_limit, cap_per_arch, reps, keys_cache, cache)

-----------------------------------------------------------------------------
(* generate_suggestions: the relaxation ladders *)

\* The threshold tiers of the Leaders ladder, in the order they are tried:
\* <<min_appearance_pct, min_avg_pct, max_avg_rank>>
LeaderTiers ==
    <<<<MIN_LEADER_APPEARANCE_PCT, MIN_LEADER_AVG_PCT, 10>>,
      <<MIN_LEADER_APPEARANCE_PCT, MIN_LEADER_AVG_PCT, 12>>,
      <<RMax(RSub(MIN_LEADER_APPEARANCE_PCT, <<1, 10>>), <<2, 5>>), MIN_LEADER_AVG_PCT, 12>>,
      <<RMax(RSub(MIN_LEADER_APPEARANCE_PCT, <<1, 10>>), <<2, 5>>),
        RMax(RSub(MIN_LEADER_AVG_PCT, <<1, 2>>), <<2, 1>>), 13>>,
      <<RMax(RSub(MIN_LEADER_APPEARANCE_PCT, <<1, 5>>), <<7, 20>>),
        RMax(RSub(MIN_LEADER_AVG_PCT, One), <<3, 2>>), 15>>>>
LoosePoolTier == <<<<1, 4>>, <<4, 5>>, 20>>
UltimatePoolTier == <<Zero, Zero, 1000000>>

LeadersAt(all_stats, tier) ==
    ComputeConsistentLeaders(all_stats, MAX_CANDIDATES, tier[1], tier[2], tier[3])

\* Fault: pool items are put in front of the list
RECURSIVE MergeInFront(_, _)
MergeInFront(list, pool) ==
    IF pool = <<>> \/ Len(list) >= MIN_CANDIDATES THEN list
    ELSE IF Head(pool).uid \notin {list[i].uid : i \in DOMAIN list}
         THEN MergeInFront(<<Head(pool)>> \o list, Tail(pool))
         ELSE MergeInFront(list, Tail(pool))

\* Fault: the merge goes through the whole pool
RECURSIVE MergeInAll(_, _)
MergeInAll(list, pool) ==
    IF pool = <<>> THEN list
    ELSE IF Head(pool).uid \notin {list[i].uid : i \in DOMAIN list}
         THEN MergeInAll(Append(list, Head(pool)), Tail(pool))
         ELSE MergeInAll(list, Tail(pool))

\* "Merge to reach minimum": pool items not yet listed are appended, in pool
\* order, until the list holds MIN_CANDIDATES items
RECURSIVE MergeIn(_, _)
MergeIn(list, pool) ==
    IF pool = <<>> \/ Len(list) >= MIN_CANDIDATES THEN list
    ELSE IF Head(pool).uid \notin {list[i].uid : i \in DOMAIN list}
         THEN MergeIn(Append(list, Head(pool)), Tail(pool))
         ELSE MergeIn(list, Tail(pool))

\* The threshold tiers: the list of the first tier from `i` on that reaches
\* the quota, else the list of the last tier; with the tiers evaluated
Tried(i, rest) == [result |-> rest.result, tiers |-> <<i>> \o rest.tiers]

RECURSIVE ThresholdLadder(_, _, _)
ThresholdLadder(all_stats, i, previous_list) ==
    IF i > Len(LeaderTiers) \/ (i > 1 /\ Len(previous_list) >= MIN_CANDIDATES)
    THEN [result |-> previous_list, tiers |-> <<>>]
    ELSE Tried(i, ThresholdLadder(all_stats, i + 1, LeadersAt(all_stats, LeaderTiers[i])))

\* A pool tier (6: the loose pool, 7: the ultimate pool) is merged in while
\* the list is short of MIN_CANDIDATES
PoolTier(all_stats, sofar, tier, i) ==
    IF Len(sofar.result) < MIN_CANDIDATES
    THEN [result |-> MergeIn(sofar.result, LeadersAt(all_stats, tier)),
          tiers |-> sofar.tiers \o <<i>>]
    ELSE sofar

LeadersLadder(all_stats) ==
    PoolTier(all_stats,
             PoolTier(all_stats, ThresholdLadder(all_stats, 1, <<>>), LoosePoolTier, 6),
             UltimatePoolTier, 7)

\* The cap ladder of Rising, Crashed and One-Offs: MAX_PER_ARCHETYPE, then 3
\* and 4 while the list is short of MIN_CANDIDATES.  Scorer(cap, cache) is
\* one call of the scorer.
Tiered(r, caps) ==
    [result |-> r.result, cache |-> r.cache, raised |-> r.raised, tiers |-> caps]

\* Fault: the ladder goes on until the list is full
QuotaMetWhenFull(sofar) == sofar.raised \/ Len(sofar.result) >= MAX_CANDIDATES

\* `if len(...) < MIN_CANDIDATES` before the loop and `if len(...) >=
\* MIN_CANDIDATES: break` in it; an exception ends the ladder as well
QuotaMet(sofar) == sofar.raised \/ Len(sofar.result) >= MIN_CANDIDATES

CapTier(Scorer(_, _), sofar, cap) ==
    IF QuotaMet(sofar) THEN sofar
    ELSE Tiered(Scorer(cap, sofar.cache), sofar.tiers \o <<cap>>)

CapLadder(Scorer(_, _), cache) ==
    CapTier(Scorer,
            CapTier(Scorer,
                    Tiered(Scorer(MAX_PER_ARCHETYPE, cache), <<MAX_PER_ARCHETYPE>>),
                    3),
            4)

\* {c.get('uid') or c['name'] for c in items}
KeysOf(items) == {items[i].uid : i \in DOMAIN items}

-----------------------------------------------------------------------------
(* generate_suggestions: the One-Offs pool and the curation step *)

\* --day2d-pool (default)
Day2dPoolArg == 60
PoolCap == Max(MAX_PER_ARCHETYPE * 5, 10)

\* Fault: a selection entry is looked up by uid only
ResolveByUid(sid, pool) ==
    IF \E i \in DOMAIN pool : pool[i].uid = sid
    THEN Some(pool[CHOOSE i \in DOMAIN pool : pool[i].uid = sid])
    ELSE None

\* The pool item a selection entry resolves to: by uid, else the first pool
\* item of that name; None when there is none
Resolve(sid, pool) ==
    IF \E i \in DOMAIN pool : pool[i].uid = sid
    THEN Some(pool[CHOOSE i \in DOMAIN pool : pool[i].uid = sid])
    ELSE IF \E i \in DOMAIN pool : pool[i].name = sid
    THEN Some(pool[CHOOSE i \in DOMAIN pool :
                    pool[i].name = sid /\ \A j \in 1..(i - 1) : pool[j].name # sid])
    ELSE None

\* Fault: the loop over the selected ids without the `uid not in seen` test
RECURSIVE ChooseSeen(_, _, _)
ChooseSeen(selected_ids, pool, chosen) ==
    IF selected_ids = <<>> THEN chosen
    ELSE LET item == Resolve(Head(selected_ids), pool)
         IN  IF ~IsNone(item) /\ Len(chosen) < MAX_CANDIDATES
             THEN ChooseSeen(Tail(selected_ids), pool, Append(chosen, Val(item)))
             ELSE ChooseSeen(Tail(selected_ids), pool, chosen)

RECURSIVE Choose(_, _, _)
Choose(selected_ids, pool, chosen) ==
    IF selected_ids = <<>> THEN chosen
    ELSE LET item == Resolve(Head(selected_ids), pool)
         IN  IF ~IsNone(item) /\ Val(item).uid \notin KeysOf(chosen)
                /\ Len(chosen) < MAX_CANDIDATES
             THEN Choose(Tail(selected_ids), pool, Append(chosen, Val(item)))
             ELSE Choose(Tail(selected_ids), pool, chosen)

\* "Fill up to minimum with top pool items not already chosen"
RECURSIVE FillUp(_, _)
FillUp(chosen, pool) ==
    IF pool = <<>> THEN chosen
    ELSE IF Head(pool).uid \notin KeysOf(chosen)
         THEN LET next == Append(chosen, Head(pool))
              IN  IF Len(next) >= MIN_CANDIDATES THEN next ELSE FillUp(next, Tail(pool))
         ELSE FillUp(chosen, Tail(pool))

\* The curated list for the selected ids
Filled(chosen, pool) ==
    IF Len(chosen) < MIN_CANDIDATES THEN FillUp(chosen, pool) ELSE chosen
Curated(selected_ids, pool) ==
    Take(Filled(Choose(selected_ids, pool, <<>>), pool), MAX_CANDIDATES)

\* A selection entry {"uid": [...]} is appended as it is and by_uid.get(sid)
\* raises TypeError (unhashable) when the loop reaches it
UNHASHABLE == -999
SelectionFails(sel) == ~sel.ok \/ UNHASHABLE \in Range(sel.ids)
BeforeFailure(selected_ids) ==
    Take(selected_ids,
         (CHOOSE i \in DOMAIN selected_ids :
            /\ selected_ids[i] = UNHASHABLE
            /\ \A j \in 1..(i - 1) : selected_ids[j] # UNHASHABLE) - 1)

\* Fault: the entries chosen before the failure are published
CurationPartial(sel, pool, before) ==
    IF ~sel.ok THEN [list |-> before, used |-> FALSE]
    ELSE IF SelectionFails(sel)
    THEN [list |-> Choose(BeforeFailure(sel.ids), pool, <<>>), used |-> FALSE]
    ELSE [list |-> Curated(sel.ids, pool), used |-> TRUE]

\* The try block of the curation: that_day2d and curated_used are assigned
\* by its last statements only, so any exception in it leaves both as they were
CurationResult(sel, pool, before) ==
    IF SelectionFails(sel) THEN [list |-> before, used |-> FALSE]
    ELSE [list |-> Curated(sel.ids, pool), used |-> TRUE]

-----------------------------------------------------------------------------
(* generate_suggestions: the steps of one run *)

NoTiers == [leaders |-> <<>>, rise |-> <<>>, chopped |-> <<>>, day2d |-> <<>>]

inputs == <<tournaments, files, reports, selection>>
caches == <<tournament_data_cache, archetype_cache, all_cards_cache>>
lists == <<leaders, on_the_rise, chopped, that_day2d, that_day2d_pool>>

\* tournaments = loader.load_tournament_order(); "No tournaments found" ends
\* the run; else tournament_data = loader.load_grouped_tournament_data(tournaments)
LoadCorpus ==
    /\ pc = "start"
    /\ IF tournaments = <<>>
       THEN /\ pc' = "stopped"
            /\ UNCHANGED <<tournament_data_cache, grouped>>
       ELSE /\ pc' = "grouped"
            /\ tournament_data_cache' =
                    Some(LoadAllTournamentData(tournaments, reports, tournament_data_cache))
            /\ grouped' = LoadGroupedTournamentData(tournaments, reports, tournament_data_cache)
    /\ UNCHANGED <<inputs, clock, archetype_cache, all_cards_cache, tournament_data, lists,
                   tiers, curated_used, raised, output, previous>>

\* tournament_data = RotationFilter.filter_by_current_rotation(tournament_data)
ApplyRotationFilter ==
    /\ pc = "grouped"
    /\ tournament_data' = FilterByCurrentRotation(grouped)
    /\ pc' = "filtered"
    /\ UNCHANGED <<inputs, clock, caches, grouped, lists, tiers, curated_used, raised,
                   output, previous>>

\* Leaders and its ladder (lines 1056-1125)
ConsistentLeaders ==
    /\ pc = "filtered"
    /\ \E ladder \in {LeadersLadder(
                        IF tournament_data = <<>> THEN <<>>
                        ELSE LeaderStats(tournament_data,
                                GetAllCardKeys(tournament_data, all_cards_cache)))} :
            /\ leaders' = ladder.result
            /\ tiers' = [tiers EXCEPT !.leaders = ladder.tiers]
    /\ all_cards_cache' = IF tournament_data = <<>> THEN all_cards_cache
                          ELSE Some(GetAllCardKeys(tournament_data, all_cards_cache))
    /\ pc' = "leaders"
    /\ UNCHANGED <<inputs, clock, tournament_data_cache, archetype_cache, grouped,
                   tournament_data, on_the_rise, chopped, that_day2d, that_day2d_pool,
                   curated_used, raised, output, previous>>

\* Rising and its cap ladder (lines 1127-1140)
OnTheRise ==
    /\ pc = "leaders"
    /\ \E ladder \in {CapLadder(
               LAMBDA cap, cache :
                   ComputeOnTheRise(tournament_data,
                                    GetAllCardKeys(tournament_data, all_cards_cache),
                                    KeysOf(leaders), MAX_CANDIDATES, cap, reports, cache),
               archetype_cache)} :
            /\ on_the_rise' = ladder.result
            /\ archetype_cache' = ladder.cache
            /\ tiers' = [tiers EXCEPT !.rise = ladder.tiers]
            /\ raised' = ladder.raised
            /\ pc' = IF ladder.raised THEN "failed" ELSE "rise"
    /\ UNCHANGED <<inputs, clock, tournament_data_cache, all_cards_cache, grouped,
                   tournament_data, leaders, chopped, that_day2d, that_day2d_pool,
                   curated_used, output, previous>>

\* Crashed and its cap ladder (lines 1142-1155); every call reads the clock
ChoppedAndWashed ==
    /\ pc = "rise"
    /\ \E ladder \in {CapLadder(
               LAMBDA cap, cache :
                   ComputeChoppedAndWashed(tournament_data,
                                           GetAllCardKeys(tournament_data, all_cards_cache),
                                           KeysOf(leaders) \cup KeysOf(on_the_rise),
                                           MAX_CANDIDATES, cap, clock, reports, cache),
               archetype_cache)} :
            /\ chopped' = ladder.result
            /\ archetype_cache' = ladder.cache
            /\ tiers' = [tiers EXCEPT !.chopped = ladder.tiers]
            /\ raised' = ladder.raised
            /\ pc' = IF ladder.raised THEN "failed" ELSE "chopped"
    /\ UNCHANGED <<inputs, clock, tournament_data_cache, all_cards_cache, grouped,
                   tournament_data, leaders, on_the_rise, that_day2d, that_day2d_pool,
                   curated_used, output, previous>>

\* The caches compute_that_day2d leaves behind
DataCacheAfterDay2d ==
    Some(LoadAllTournamentData(Take(tournaments, DAY2D_LOOKBACK_TOURNAMENTS), reports,
                               tournament_data_cache))
KeysCacheAfter(extended_data) ==
    IF extended_data = <<>> THEN all_cards_cache
    ELSE Some(GetAllCardKeys(extended_data, all_cards_cache))
KeysCacheAfterDay2d ==
    KeysCacheAfter(LoadGroupedTournamentData(Take(tournaments, DAY2D_LOOKBACK_TOURNAMENTS),
                                             reports, tournament_data_cache))

\* One-Offs and its cap ladder (lines 1157-1169)
ThatDay2d ==
    /\ pc = "chopped"
    /\ \E ladder \in {CapLadder(
               LAMBDA cap, cache :
                   ComputeThatDay2d(tournaments,
                                    KeysOf(leaders) \cup KeysOf(on_the_rise) \cup KeysOf(chopped),
                                    MAX_CANDIDATES, cap, reports,
                                    tournament_data_cache, all_cards_cache, cache),
               archetype_cache)} :
            /\ that_day2d' = ladder.result
            /\ archetype_cache' = ladder.cache
            /\ tiers' = [tiers EXCEPT !.day2d = ladder.tiers]
            /\ raised' = ladder.raised
            /\ pc' = IF ladder.raised THEN "failed" ELSE "day2d"
    /\ tournament_data_cache' = DataCacheAfterDay2d
    /\ all_cards_cache' = KeysCacheAfterDay2d
    /\ UNCHANGED <<inputs, clock, grouped, tournament_data, leaders, on_the_rise, chopped,
                   that_day2d_pool, curated_used, output, previous>>

\* The larger candidate pool (lines 1171-1179); an exception leaves it empty
Day2dPool ==
    /\ pc = "day2d"
    /\ \E pool \in {ComputeThatDay2d(tournaments,
                        KeysOf(leaders) \cup KeysOf(on_the_rise) \cup KeysOf(chopped),
                        Max(Day2dPoolArg, MAX_CANDIDATES), PoolCap, reports,
                        tournament_data_cache, all_cards_cache, archetype_cache)} :
            /\ that_day2d_pool' = IF pool.raised THEN <<>> ELSE pool.result
            /\ archetype_cache' = pool.cache
    /\ pc' = "pool"
    /\ UNCHANGED <<inputs, clock, tournament_data_cache, all_cards_cache, grouped,
                   tournament_data, leaders, on_the_rise, chopped, that_day2d, tiers,
                   curated_used, raised, output, previous>>

\* The curation step (lines 1194-1245).  selection is None when there is no
\* selection file, else [ok |-> FALSE] for a file that makes the step throw,
\* or [ok |-> TRUE, ids |-> selected_ids].
Curate ==
    /\ pc = "pool"
    /\ IF ~IsNone(selection) /\ that_day2d_pool # <<>>
       THEN \E r \in {CurationResult(Val(selection), that_day2d_pool, that_day2d)} :
                /\ that_day2d' = r.list
                /\ curated_used' = r.used
       ELSE UNCHANGED <<that_day2d, curated_used>>
    /\ pc' = "curated"
    /\ UNCHANGED <<inputs, clock, caches, grouped, tournament_data, leaders, on_the_rise,
                   chopped, that_day2d_pool, tiers, raised, output, previous>>

\* The categories array of the suggestions document (lines 1247-1262)
WriteOutput ==
    /\ pc = "curated"
    /\ output' = [leaders |-> Take(leaders, MAX_CANDIDATES),
                  rise |-> Take(on_the_rise, MAX_CANDIDATES),
                  chopped |-> Take(chopped, MAX_CANDIDATES),
                  day2d |-> Take(that_day2d, MAX_CANDIDATES)]
    /\ pc' = "done"
    /\ UNCHANGED <<inputs, clock, caches, grouped, tournament_data, lists, tiers,
                   curated_used, raised, previous>>

Scoring ==
    \/ ConsistentLeaders
    \/ OnTheRise
    \/ ChoppedAndWashed
    \/ ThatDay2d
    \/ Day2dPool
    \/ Curate
    \/ WriteOutput

Next ==
    \/ LoadCorpus
    \/ ApplyRotationFilter
    \/ ConsistentLeaders
    \/ OnTheRise
    \/ ChoppedAndWashed
    \/ ThatDay2d
    \/ Day2dPool
    \/ Curate
    \/ WriteOutput

-----------------------------------------------------------------------------
(* The corpora the model is checked on *)

\* Bounds of the model
NumEvents == 6     \* events of the largest tournament order
Extra == 1         \* cards beyond MIN_CANDIDATES / MAX_CANDIDATES in a large block

ArchNames ==
    <<"Gardevoir", "Raging Bolt", "Dragapult Dusknoir", "Miraidon", "Gholdengo",
      "Lugia", "Chien-Pao", "Iron Thorns", "Klawf", "Ceruledge">>

\* Usage (in tenths of a percent) of the k-th card (k = 0, 1, ...) of a class
\* of cards in the e-th event of the tournament order, newest first
SeriesAt(cls, k, e) ==
    CASE cls = "LEAD" -> 900 - 10 * k
      [] cls = "RISE" -> IF e = 1 THEN 90 + 5 * k
                         ELSE IF e <= 4 THEN <<20, 15, 10>>[e - 1] ELSE 0
      [] cls = "CRASH" -> IF e = 2 THEN 10
                          ELSE IF e \in 3..5 THEN <<180, 200, 220>>[e - 2] + 10 * k ELSE 0
      [] cls = "ONEOFF" -> IF e = 4 THEN 10 + (k % 5) ELSE 0
      \* two cards that fell to 0 from a two-event peak, one peak an event older
      [] cls = "SLUMP" -> IF k = 0 THEN (IF e \in {3, 4} THEN 100 ELSE 0)
                          ELSE (IF e \in {4, 5} THEN 113 ELSE 0)
      \* second printings of the rising cards, barely played in the 2nd event
      \* and played once more in the 4th, the only event whose decks.json
      \* lists them
      [] cls = "REPRINT" -> IF e = 2 THEN 1 ELSE IF e = 4 THEN 10 + k ELSE 0
      \* former staples: played in every event but the two newest, ever more
      \* the older the event
      [] cls = "STAPLE" -> IF e <= 2 THEN 0 ELSE 120 + 20 * e + 10 * k
      \* newly legal cards: played in the newest event only
      [] cls = "NEW" -> IF e = 1 THEN 50 + 10 * k ELSE 0
      \* cards seen once, in the event after the One-Offs look-back
      [] cls = "OLD" -> IF e = DAY2D_LOOKBACK_TOURNAMENTS + 1 THEN 10 + k ELSE 0
      \* three basic energies, one with the usage of a fallen card, one with
      \* the usage of a rising card, one with the usage of a one-off
      [] cls = "ENERGY" -> IF k = 0 THEN (IF e = 2 THEN 10
                                          ELSE IF e \in 3..5 THEN <<180, 200, 220>>[e - 2]
                                          ELSE 0)
                           ELSE IF k = 1 THEN (IF e <= 4 THEN <<90, 20, 15, 10>>[e] ELSE 0)
                           ELSE (IF e = 4 THEN 10 ELSE 0)

ClassBase(cls) ==
    CASE cls = "LEAD" -> 0 [] cls = "RISE" -> 20 [] cls = "CRASH" -> 50 [] cls = "ONEOFF" -> 80
      [] cls = "SLUMP" -> 75 [] cls = "ENERGY" -> -3 [] cls = "OLD" -> 70
      [] cls = "REPRINT" -> 20 [] cls = "STAPLE" -> 60
      [] cls = "NEW" -> 65

\* The printing a uid "Name::SET::NNN" names (NamePart)
Printing(cls) == IF cls = "REPRINT" THEN 1000 ELSE 0

\* n cards of a class, every g consecutive ones sharing an archetype
\* (g = 0: in no deck at all)
Block(cls, shape) ==
    [i \in 1..shape[1] |->
        [uid |-> Printing(cls) + 100 + ClassBase(cls) + i,
         name |-> ClassBase(cls) + i,
         cls |-> cls,
         k |-> i - 1,
         arch |-> IF shape[2] = 0 THEN NoArch
                  ELSE ArchNames[(((i - 1) \div shape[2]) % Len(ArchNames)) + 1]]]

Population(sc) ==
    Block("LEAD", <<sc.nL, 0>>) \o Block("RISE", sc.R) \o Block("CRASH", sc.C)
        \o Block("ONEOFF", sc.O) \o Block("SLUMP", sc.S) \o Block("ENERGY", sc.E)
        \o Block("OLD", sc.A) \o Block("REPRINT", sc.Y) \o Block("STAPLE", sc.P)
        \o Block("NEW", sc.N)

BaseDay == 7 * 50 + 5      \* a Saturday
SVI == <<"S", "V", "I", "-", "M", "E", "G">>
SVIdash == <<"S", "V", "I", " ", "em-dash", " ", "B", "L", "K">>
BRS == <<"B", "R", "S", "-", "P", "A", "R">>

\* Date and formatName of the e-th event under a timeline
DateAt(tl, e) ==
    CASE tl = "undated" -> None
      [] tl = "merged" -> Some(BaseDay - 7 * (e \div 2))
      [] tl = "tail-undated" -> IF e >= 4 THEN None ELSE Some(BaseDay - 7 * (e - 1))
      [] OTHER -> Some(BaseDay - 7 * (e - 1))
FormatAt(tl, e) ==
    CASE tl = "undated" -> <<>>
      [] tl = "rotated" -> IF e <= 3 THEN SVI ELSE BRS
      [] tl = "rotated2" -> IF e <= 2 THEN SVIdash ELSE BRS
      [] OTHER -> SVI

\* decks.json of the e-th event lists the played cards of the class
InDecks(cls, e) == cls # "REPRINT" \/ e = 4

Report(pop, tl, e) ==
    LET present == {i \in DOMAIN pop : SeriesAt(pop[i].cls, pop[i].k, e) > 0}
        card(u) == pop[CHOOSE i \in present : pop[i].uid = u]
        byname(n) == pop[CHOOSE i \in present :
                            pop[i].name = n /\ pop[i].arch # NoArch /\ InDecks(pop[i].cls, e)]
    IN  [date |-> DateAt(tl, e),
         format_name |-> FormatAt(tl, e),
         pct_map |-> [u \in {pop[i].uid : i \in present} |->
                        Rat(SeriesAt(card(u).cls, card(u).k, e), 10)],
         name_map |-> [u \in {pop[i].uid : i \in present} |-> card(u).name],
         decks |-> [n \in {pop[i].name : i \in {j \in present :
                                        pop[j].arch # NoArch /\ InDecks(pop[j].cls, e)}} |->
                        byname(n).arch]]

\* The curated selection file of a scenario
SelectionOf(sc) ==
    LET oneoffs == Block("ONEOFF", sc.O)
        n == Len(oneoffs)
    IN  CASE sc.sel = "none" -> None
          [] sc.sel = "bad" -> Some([ok |-> FALSE, ids |-> <<>>])
          [] sc.sel = "empty" -> Some([ok |-> TRUE, ids |-> <<>>])
          [] sc.sel = "uids" -> Some([ok |-> TRUE, ids |-> [i \in 1..n |-> oneoffs[i].uid]])
          [] sc.sel = "few" ->
                Some([ok |-> TRUE,
                      ids |-> IF n = 0 THEN <<999>>
                              ELSE <<oneoffs[n].name, 999, oneoffs[n].uid, oneoffs[1].uid>>])
          [] sc.sel = "broken" ->
                Some([ok |-> TRUE,
                      ids |-> [i \in 1..Min(n, 2) |-> oneoffs[n + 1 - i].uid]
                                \o <<UNHASHABLE>> \o [i \in 1..n |-> oneoffs[i].uid]])
          [] sc.sel = "names" ->
                Some([ok |-> TRUE,
                      ids |-> [i \in 1..n |-> oneoffs[n + 1 - i].name]
                                \o <<999>> \o [i \in 1..Min(n, 2) |-> oneoffs[i].uid]])

Scenario(nL, R, C, O, nEv, tl, sel, now) ==
    [nL |-> nL, R |-> R, C |-> C, O |-> O, S |-> <<0, 0>>, E |-> <<0, 0>>,
     A |-> <<0, 0>>, Y |-> <<0, 0>>, P |-> <<0, 0>>, N |-> <<0, 0>>,
     nEv |-> nEv,
     tl |-> tl, sel |-> sel, now |-> now]

Quota == MIN_CANDIDATES + Extra
Full == MAX_CANDIDATES + Extra
One1 == <<1, 0>>
Shapes == {<<0, 0>>, <<1, 0>>, <<3, 1>>, <<5, 5>>, <<Quota, 2>>, <<Quota, 3>>, <<Quota, 4>>,
           <<Quota, Quota>>, <<Full, 2>>}
LeaderCounts == {0, MIN_CANDIDATES - 1, MIN_CANDIDATES}

\* One category at a time takes every shape
PopulationScenarios ==
    {Scenario(nL, s, One1, One1, NumEvents, "weekly", "none", 0) :
        nL \in LeaderCounts, s \in Shapes}
    \cup {Scenario(nL, One1, s, One1, NumEvents, "weekly", "none", 0) :
        nL \in LeaderCounts, s \in Shapes}
    \cup {Scenario(nL, One1, One1, s, NumEvents, "weekly", "none", 0) :
        nL \in LeaderCounts, s \in Shapes}

\* Short and long corpora, dated or not, merged weekends, a rotation change
TimelineScenarios ==
    {Scenario(nL, <<3, 1>>, <<3, 1>>, <<3, 1>>, n, tl, "none", 0) :
        nL \in {0, MIN_CANDIDATES}, n \in 1..NumEvents,
        tl \in {"weekly", "undated", "merged", "tail-undated", "rotated", "rotated2"}}

\* Curated selections over small and large pools
CurationScenarios ==
    {Scenario(MIN_CANDIDATES, One1, One1, s, NumEvents, "weekly", sel, 0) :
        s \in {<<0, 0>>, <<3, 1>>, <<5, 5>>, <<Quota, Quota>>, <<Full, 2>>},
        sel \in {"bad", "empty", "uids", "names", "few", "broken"}}

\* Two fallen cards whose peaks are a week apart
SlumpScenarios ==
    {[Scenario(MIN_CANDIDATES, One1, One1, One1, NumEvents, "weekly", "none", 0)
        EXCEPT !.S = <<2, 0>>]}

\* Basic energies played like a fallen card, a rising card and a one-off, with
\* and without Leaders to fill the quota, with and without a curated selection
EnergyScenarios ==
    {[Scenario(nL, <<3, 1>>, <<3, 1>>, One1, n, "weekly", sel, 0)
        EXCEPT !.E = <<3, 1>>] :
        nL \in {0, MIN_CANDIDATES}, n \in {NumEvents - 2, NumEvents - 1, NumEvents},
        sel \in {"none", "few"}}

\* A rising card that is in no deck, with a second printing that is in a
\* deck of an event of the earlier rotation only
ReprintScenarios ==
    {[Scenario(MIN_CANDIDATES, One1, One1, One1, n, tl, "none", 0)
        EXCEPT !.Y = <<1, 1>>] : n \in {4, NumEvents}, tl \in {"weekly", "rotated"}}

\* Former staples and newly legal cards over corpora of up to one event more
\* than the others have
StapleScenarios ==
    {[Scenario(nL, <<5, 5>>, One1, One1, n, "weekly", "none", 0)
        EXCEPT !.P = <<2, 1>>, !.N = <<2, 1>>] :
        nL \in {0, MIN_CANDIDATES}, n \in 3..(NumEvents + 1)}

Scenarios ==
    PopulationScenarios \cup TimelineScenarios \cup CurationScenarios \cup SlumpScenarios
        \cup EnergyScenarios \cup ReprintScenarios \cup StapleScenarios

\* The state of a run over the given files that stands at `at`, nothing
\* loaded or computed yet
StartAt(at, reps, sel, now) ==
    /\ pc = at
    /\ tournaments = [e \in DOMAIN reps |-> e]
    /\ files = <<>>
    /\ reports = reps
    /\ selection = sel
    /\ clock = now
    /\ tournament_data_cache = None
    /\ archetype_cache = EmptyMap
    /\ all_cards_cache = None
    /\ grouped = <<>>
    /\ tournament_data = <<>>
    /\ leaders = <<>>
    /\ on_the_rise = <<>>
    /\ chopped = <<>>
    /\ that_day2d = <<>>
    /\ that_day2d_pool = <<>>
    /\ tiers = NoTiers
    /\ curated_used = FALSE
    /\ raised = FALSE
    /\ output = None
    /\ previous = None

\* The state at the start of a run over the given files
StartOver(reps, sel, now) == StartAt("start", reps, sel, now)

Start(sc) ==
    StartOver([e \in 1..sc.nEv |-> Report(Population(sc), sc.tl, e)], SelectionOf(sc),
              BaseDay + sc.now)

Init == \E sc \in Scenarios : Start(sc)

Spec == Init /\ [][Next]_vars

\* The engine is run a second time over the same files, at the same or at a
\* later wall-clock time; all entities are rebuilt, `previous` keeps the
\* categories array of the first run.
ClockSteps == {0, 1, 60}

RunAgain ==
    /\ pc = "done"
    /\ previous = None
    /\ previous' = Some(output)
    /\ \E days \in ClockSteps : clock' = clock + days
    /\ pc' = "start"
    /\ tournament_data_cache' = None
    /\ archetype_cache' = EmptyMap
    /\ all_cards_cache' = None
    /\ grouped' = <<>>
    /\ tournament_data' = <<>>
    /\ leaders' = <<>>
    /\ on_the_rise' = <<>>
    /\ chopped' = <<>>
    /\ that_day2d' = <<>>
    /\ that_day2d_pool' = <<>>
    /\ tiers' = NoTiers
    /\ curated_used' = FALSE
    /\ raised' = FALSE
    /\ output' = None
    /\ UNCHANGED inputs

NextTwice == Next \/ RunAgain

SpecTwice == Init /\ [][NextTwice]_vars

-----------------------------------------------------------------------------
(* Loading, grouping and filtering small corpora *)

LoadAndFilter ==
    \/ LoadCorpus
    \/ ApplyRotationFilter

\* Events of two cards, 101 and 102, dated on a Saturday, on the Sunday after
\* it, on the Friday before it, or not at all
GroupEvents == 3
UsageMaps ==
    {EmptyMap,
     (101 :> <<10, 1>>) @@ (102 :> Zero),
     (101 :> <<20, 1>>) @@ (102 :> <<5, 1>>),
     (101 :> Zero),
     (102 :> <<5, 1>>),
     (101 :> <<10, 1>>)}
EventDates == {None, Some(BaseDay), Some(BaseDay + 1), Some(BaseDay - 1)}
GroupReports ==
    {[date |-> d, format_name |-> SVI, pct_map |-> m,
      name_map |-> [u \in DOMAIN m |-> u - 100], decks |-> EmptyMap] :
        d \in EventDates, m \in UsageMaps}

InitGrouper ==
    \E n \in 1..GroupEvents : \E reps \in [1..n -> GroupReports] :
        StartOver(reps, None, BaseDay)

SpecGrouper == InitGrouper /\ [][LoadAndFilter]_vars

\* Events of one card dated from the Friday before a weekend to the Saturday
\* after it, or not at all, in any order
WeekendEvents == 3
WeekendDates ==
    {None, Some(BaseDay - 1), Some(BaseDay), Some(BaseDay + 1), Some(BaseDay + 2),
     Some(BaseDay + 7)}
WeekendReports ==
    {[date |-> d, format_name |-> SVI, pct_map |-> m,
      name_map |-> [u \in DOMAIN m |-> u - 100], decks |-> EmptyMap] :
        d \in WeekendDates, m \in {EmptyMap, (101 :> <<10, 1>>)}}

InitWeekend ==
    \E n \in 1..WeekendEvents : \E reps \in [1..n -> WeekendReports] :
        StartOver(reps, None, BaseDay)

SpecWeekend == InitWeekend /\ [][LoadAndFilter]_vars

\* Undated events that differ in their formatName only
FilterEvents == 4
SandV == <<"S", " ", "a", "n", "d", " ", "V", "-", "1">>
SampV == <<"S", " ", "&", " ", "V", " ", "en-dash", "2">>
NoPrefix == <<" ", "-", "X">>
FormatNames == {<<>>, SVI, SVIdash, BRS, SandV, SampV, NoPrefix}
FilterReports ==
    {[date |-> None, format_name |-> f, pct_map |-> EmptyMap, name_map |-> EmptyMap,
      decks |-> EmptyMap] : f \in FormatNames}

InitFilter ==
    \E n \in 1..FilterEvents : \E reps \in [1..n -> FilterReports] :
        StartOver(reps, None, BaseDay)

SpecFilter == InitFilter /\ [][LoadAndFilter]_vars

\* Corpora of at most TinyEvents events, some of them with an empty usage
\* report.  An empty tournament order ends the run before a scorer is called
\* (LoadCorpus); the scorers and their ladders are run on the empty working
\* corpus as well, from the state a run is in when it reaches them.
TinyEvents == 2
TinyShapes == {<<0, 0>>, <<3, 1>>}
TinyScenarios ==
    {Scenario(nL, R, C, O, n, tl, sel, 0) :
        nL \in {0, MIN_CANDIDATES}, R \in TinyShapes, C \in TinyShapes, O \in TinyShapes,
        n \in 1..TinyEvents, tl \in {"weekly", "undated", "merged"}, sel \in {"none", "uids"}}

InitTiny ==
    \/ \E sc \in TinyScenarios : Start(sc)
    \/ StartAt("filtered", <<>>, None, BaseDay)

SpecTiny == InitTiny /\ [][Next]_vars

\* Tournament orders that reach beyond the look-back of the One-Offs scorer,
\* with cards whose only appearance is in the first event beyond it
Beyond == 2
LongScenarios ==
    {[Scenario(nL, One1, One1, One1, DAY2D_LOOKBACK_TOURNAMENTS + n, "weekly", "none", 0)
        EXCEPT !.A = a] :
        nL \in LeaderCounts, n \in 0..Beyond, a \in {<<1, 0>>, <<3, 1>>}}

InitLong == \E sc \in LongScenarios : Start(sc)

SpecLong == InitLong /\ [][Next]_vars

\* Runs that start from the files of the events.  load_grouped_tournament_data
\* reads every event of the tournament order; an exception of one read leaves
\* the loader and ends the run.
LoadFiles ==
    /\ pc = "files"
    /\ IF ReadRaises(files)
       THEN /\ pc' = "failed"
            /\ raised' = TRUE
            /\ UNCHANGED <<reports, tournament_data_cache, grouped>>
       ELSE /\ pc' = "grouped"
            /\ reports' = ReportsOf(files)
            /\ tournament_data_cache' =
                    Some(LoadAllTournamentData(tournaments, ReportsOf(files),
                                               tournament_data_cache))
            /\ grouped' = LoadGroupedTournamentData(tournaments, ReportsOf(files),
                                                    tournament_data_cache)
            /\ UNCHANGED raised
    /\ UNCHANGED <<tournaments, files, selection, clock, archetype_cache, all_cards_cache,
                   tournament_data, lists, tiers, curated_used, output, previous>>

ReadAndFilter ==
    \/ LoadFiles
    \/ ApplyRotationFilter

Number(n) == [kind |-> "number", val |-> Int2R(n)]
Numeric(n) == [kind |-> "numeric", val |-> Int2R(n)]
Null == [kind |-> "null", val |-> Zero]
Text == [kind |-> "text", val |-> Zero]
Item(uid, name, pct) == [kind |-> "object", uid |-> uid, name |-> name, pct |-> pct]
NotAnObject == [kind |-> "string", uid |-> None, name |-> None, pct |-> Null]

\* Report items: three spellings of card 101, card 102, an item without uid
\* and name, items whose pct is negative, null or not a number
ReportItems ==
    {Item(Some(101), Some(1), Number(60)),
     Item(Some(1101), Some(1), Number(50)),
     Item(None, Some(1), Number(-40)),
     Item(Some(102), Some(2), Numeric(30)),
     Item(Some(102), None, Null),
     Item(None, Some(2), Number(80)),
     Item(None, None, Text),
     Item(Some(102), Some(2), Text),
     NotAnObject}

MaxItems == 3
Master(kind, items) == [kind |-> kind, items |-> items]
ItemLists == UNION {[1..n -> ReportItems] : n \in 0..MaxItems}
MasterShapes ==
    {Master(k, <<>>) :
        k \in {"missing", "unparseable", "array", "falsy", "no-items", "items-number"}}
    \cup {Master("object", <<Item(Some(101), Some(1), Number(60))>>),
          Master("object", <<Item(Some(102), Some(2), Text)>>)}

Meta(kind, start, day, format) ==
    [kind |-> kind, start |-> start, day |-> day, format |-> format]
GoodMeta == Meta("object", "iso", BaseDay, SVI)
MetaShapes ==
    {Meta(k, "absent", 0, <<>>) : k \in {"missing", "unparseable", "array"}}
    \cup {GoodMeta, Meta("object", "bad", 0, SVI), Meta("object", "absent", 0, <<>>)}

LoaderEvents == 2
FileCorpora ==
    {<<[meta |-> GoodMeta, master |-> Master("object", items)]>> : items \in ItemLists}
    \cup UNION {[1..n -> [meta : MetaShapes, master : MasterShapes]] : n \in 1..LoaderEvents}

StartFiles(fs) ==
    /\ pc = "files"
    /\ tournaments = [e \in DOMAIN fs |-> e]
    /\ files = fs
    /\ reports = <<>>
    /\ selection = None
    /\ clock = BaseDay
    /\ tournament_data_cache = None
    /\ archetype_cache = EmptyMap
    /\ all_cards_cache = None
    /\ grouped = <<>>
    /\ tournament_data = <<>>
    /\ leaders = <<>>
    /\ on_the_rise = <<>>
    /\ chopped = <<>>
    /\ that_day2d = <<>>
    /\ that_day2d_pool = <<>>
    /\ tiers = NoTiers
    /\ curated_used = FALSE
    /\ raised = FALSE
    /\ output = None
    /\ previous = None

InitLoader == \E fs \in FileCorpora : StartFiles(fs)

SpecLoader == InitLoader /\ [][ReadAndFilter]_vars

-----------------------------------------------------------------------------
(* Properties *)

Categories == {"leaders", "rise", "chopped", "day2d"}
Done == pc = "done"
Out(category) == output[category]

\* C1 (mutual exclusion): in the categories array of every finished run no
\* uid is listed by two of the four category lists.
C1_MutualExclusion ==
    Done => \A a \in Categories : \A b \in Categories \ {a} :
                KeysOf(Out(a)) \cap KeysOf(Out(b)) = {}

\* A finished run whose four lists all hold cards, the One-Offs one curated
C1_Witness ==
    Done /\ curated_used /\ \A a \in Categories : Out(a) # <<>>

\* The cap of the last tier of a category's cap ladder
LastCap(category) == tiers[category][Len(tiers[category])]
ArchCount(items, arch) == Cardinality({i \in DOMAIN items : items[i].archetype = arch})
Within(items, cap) == \A i \in DOMAIN items : ArchCount(items, items[i].archetype) <= cap

\* C2 (cap respected), as stated: in the output of a finished run no archetype
\* label, UNSPECIFIED included, is carried by more items of Rising, Crashed or
\* One-Offs than the cap of the last tier of that category's ladder, curated
\* One-Offs lists included.
C2_CapRespected_AsStated ==
    Done => \A category \in {"rise", "chopped", "day2d"} :
                Within(Out(category), LastCap(category))

\* C2, amended: Rising and Crashed, and One-Offs when no curated selection was
\* applied, stay within the cap of the last tier of their ladder; a curated
\* One-Offs list stays within the cap of the candidate pool,
\* max(MAX_PER_ARCHETYPE * 5, 10).
C2_CapRespected ==
    Done => /\ Within(Out("rise"), LastCap("rise"))
            /\ Within(Out("chopped"), LastCap("chopped"))
            /\ Within(Out("day2d"), IF curated_used THEN PoolCap ELSE LastCap("day2d"))

\* A finished run whose curated One-Offs list carries one archetype more often
\* than the widest cap of the ladder, Rising and Crashed holding cards too
C2_Witness ==
    /\ Done /\ curated_used
    /\ ~Within(Out("day2d"), 4)
    /\ Out("rise") # <<>> /\ Out("chopped") # <<>>

\* C3 (idempotence): a second run over the same files writes the categories
\* array the first run wrote, whatever the wall-clock time of each run.
C3_Idempotent ==
    (Done /\ previous # None) => output = Val(previous)

\* The cards that pass a category's gates and are not claimed by an earlier
\* category, as the scorer of a finished run found them
LeaderEligible ==
    SelectSeq(LeaderStats(tournament_data, Val(all_cards_cache)),
              LAMBDA c : c.name \notin BASIC_ENERGY /\ c.appeared_count > 0)
RiseEligible ==
    RiseCandidates(tournament_data, Val(all_cards_cache), KeysOf(leaders), reports,
                   archetype_cache)
ChoppedEligible ==
    ChoppedCandidates(tournament_data, Val(all_cards_cache),
                      KeysOf(leaders) \cup KeysOf(on_the_rise), clock, reports,
                      archetype_cache)
Day2dEligible ==
    Day2dCandidates(LoadGroupedTournamentData(Take(tournaments, DAY2D_LOOKBACK_TOURNAMENTS),
                                              reports, tournament_data_cache),
                    Val(all_cards_cache),
                    KeysOf(leaders) \cup KeysOf(on_the_rise) \cup KeysOf(chopped),
                    reports, archetype_cache)

\* How many of the candidates a list can hold under a per-archetype cap
Room(candidates, cap) ==
    Cardinality({i \in DOMAIN candidates :
        Cardinality({j \in 1..i : candidates[j].archetype = candidates[i].archetype}) <= cap})

\* C4 (quota floor), as stated: a category with at least MIN_CANDIDATES cards
\* that pass its gates and are not claimed by an earlier category lists at
\* least MIN_CANDIDATES items once its ladder is exhausted.
C4_QuotaFloor_AsStated ==
    Done => /\ Len(LeaderEligible) >= MIN_CANDIDATES => Len(Out("leaders")) >= MIN_CANDIDATES
            /\ Len(RiseEligible) >= MIN_CANDIDATES => Len(Out("rise")) >= MIN_CANDIDATES
            /\ Len(ChoppedEligible) >= MIN_CANDIDATES => Len(Out("chopped")) >= MIN_CANDIDATES
            /\ Len(Day2dEligible) >= MIN_CANDIDATES => Len(Out("day2d")) >= MIN_CANDIDATES

\* C4, amended: Leaders lists at least MIN_CANDIDATES items when that many
\* cards are eligible; a capped category does when at least MIN_CANDIDATES of
\* its eligible cards fit under the widest cap of its ladder, 4 per archetype.
C4_QuotaFloor ==
    Done => /\ Len(LeaderEligible) >= MIN_CANDIDATES => Len(Out("leaders")) >= MIN_CANDIDATES
            /\ Room(RiseEligible, 4) >= MIN_CANDIDATES => Len(Out("rise")) >= MIN_CANDIDATES
            /\ Room(ChoppedEligible, 4) >= MIN_CANDIDATES
                    => Len(Out("chopped")) >= MIN_CANDIDATES
            /\ Room(Day2dEligible, 4) >= MIN_CANDIDATES => Len(Out("day2d")) >= MIN_CANDIDATES

\* A finished run whose Rising list reached the quota only under cap 4
C4_Witness ==
    /\ Done
    /\ tiers.rise = <<MAX_PER_ARCHETYPE, 3, 4>>
    /\ Room(RiseEligible, 3) < MIN_CANDIDATES
    /\ Len(Out("rise")) >= MIN_CANDIDATES

\* The strictly positive usages of a card among the events `names`
RECURSIVE PositiveUsages(_, _)
PositiveUsages(card, names) ==
    IF names = <<>> THEN <<>>
    ELSE (IF card \in DOMAIN reports[Head(names)].pct_map
             /\ RGt(reports[Head(names)].pct_map[card], Zero)
          THEN <<reports[Head(names)].pct_map[card]>> ELSE <<>>)
         \o PositiveUsages(card, Tail(names))

AverageOrZero(values) ==
    IF values = <<>> THEN Zero ELSE RDiv(RSum(values), Int2R(Len(values)))

\* C5 (weekend merge): an observation merged from several events lists every
\* card of its constituents, each at the average of the card's strictly
\* positive usages among them, and at 0 when there is none.
C5_WeekendMerge ==
    pc = "grouped" =>
        \A g \in DOMAIN grouped :
            Len(grouped[g].tournament_names) > 1 =>
                /\ DOMAIN grouped[g].pct_map =
                        UNION {DOMAIN reports[t].pct_map : t \in Range(grouped[g].tournament_names)}
                /\ \A card \in DOMAIN grouped[g].pct_map :
                        grouped[g].pct_map[card] =
                            AverageOrZero(PositiveUsages(card, grouped[g].tournament_names))

\* The events {101: 10, 102: 0} and {101: 20, 102: 5} of one weekend are
\* merged into 101: 15, 102: 5
C5_Witness ==
    /\ pc = "grouped"
    /\ Len(tournaments) = 2
    /\ reports[1].pct_map = (101 :> <<10, 1>>) @@ (102 :> Zero)
    /\ reports[2].pct_map = (101 :> <<20, 1>>) @@ (102 :> <<5, 1>>)
    /\ Len(grouped) = 1
    /\ grouped[1].tournament_names = <<1, 2>>
    /\ grouped[1].pct_map = (101 :> <<15, 1>>) @@ (102 :> <<5, 1>>)

\* The observations of the corpus that carry the current rotation prefix
Prefixes == [i \in DOMAIN grouped |-> NormalizeRotationPrefix(grouped[i].format_name)]
Labelled == {i \in DOMAIN grouped : Prefixes[i] # <<>>}
Current == Prefixes[CHOOSE i \in Labelled : \A j \in Labelled : i <= j]
InCurrent == {i \in DOMAIN grouped : Prefixes[i] = Current}

\* C6 (rotation filter boundary), as stated: when exactly 2 observations have
\* the current rotation prefix, the filter returns every input observation.
C6_Boundary_AsStated ==
    (pc = "filtered" /\ Labelled # {} /\ Cardinality(InCurrent) = 2)
        => tournament_data = grouped

\* C6, amended: when exactly 2 observations have the current rotation prefix
\* and no observation is without a prefix, the filter returns every input
\* observation.
C6_Boundary ==
    (pc = "filtered" /\ Labelled = DOMAIN grouped /\ Labelled # {}
        /\ Cardinality(InCurrent) = 2)
        => tournament_data = grouped

\* Two observations of the current rotation and two of an earlier one, all kept
C6_Witness ==
    /\ pc = "filtered"
    /\ Len(grouped) = 4 /\ Labelled = DOMAIN grouped
    /\ Cardinality(InCurrent) = 2
    /\ tournament_data = grouped

\* C7 (rotation filter rule): with current the prefix of the first labelled
\* observation, the result is the observations whose prefix is current or
\* null, in input order, when there are at least 3 of them, and the whole
\* input otherwise or when no observation is labelled.
C7_FilterRule ==
    pc = "filtered" =>
        tournament_data =
            IF Labelled # {}
               /\ Cardinality({i \in DOMAIN grouped : Prefixes[i] \in {Current, <<>>}}) >= 3
            THEN SelectSeq(grouped, LAMBDA d :
                    NormalizeRotationPrefix(d.format_name) \in {Current, <<>>})
            ELSE grouped

\* The filter dropped an earlier rotation and kept an observation without a prefix
C7_Witness ==
    /\ pc = "filtered"
    /\ Len(tournament_data) = 3 /\ Len(grouped) = 4
    /\ \E i \in DOMAIN tournament_data :
            NormalizeRotationPrefix(tournament_data[i].format_name) = <<>>

\* The usage of a card over the working corpus, newest first
CorpusKeys == UNION {DOMAIN tournament_data[i].pct_map : i \in DOMAIN tournament_data}
SeriesOf(key) == [i \in DOMAIN tournament_data |-> Usage(tournament_data, key, i - 1)]
\* The card's usage is `series`, followed by observations that do not have it
Shows(key, series) ==
    /\ Len(tournament_data) >= Len(series)
    /\ \A i \in DOMAIN tournament_data :
            SeriesOf(key)[i] = IF i <= Len(series) THEN series[i] ELSE Zero
NameOf(key) == GetDisplayName(key, tournament_data)
ArchOf(key) ==
    OrUnspecified(FindArchetypeForCardGrouped(NameOf(key), tournament_data, reports,
                                              archetype_cache))

CrashSeries == <<Zero, One, <<18, 1>>, <<20, 1>>, <<22, 1>>>>
CrashCase(key) ==
    /\ Shows(key, CrashSeries)
    /\ key \notin KeysOf(Out("leaders")) \cup KeysOf(Out("rise"))
    /\ ArchCount(Out("chopped"), ArchOf(key)) < LastCap("chopped")
CrashReported(key) ==
    \E i \in DOMAIN Out("chopped") :
        /\ Out("chopped")[i].uid = key
        /\ Out("chopped")[i].sustained_peak = 3
        /\ Out("chopped")[i].peak_usage = <<20, 1>>
        /\ Out("chopped")[i].drop_amount = <<20, 1>>
        /\ Out("chopped")[i].current_usage = Zero

\* C8 (crash detection), as stated: in a finished run every card whose usage,
\* newest first, is 0, 1, 18, 20, 22, that neither Leaders nor Rising lists
\* and whose archetype is below the cap in Crashed, is listed by Crashed with
\* sustained count 3, sustained average 20, drop_amount 20 and current_usage 0.
C8_Crash_AsStated ==
    Done => \A key \in CorpusKeys : CrashCase(key) => CrashReported(key)

\* C8, amended: the same holds of every such card that is not named as a
\* basic energy, when the Crashed list holds fewer than MAX_CANDIDATES items.
C8_Crash ==
    Done => \A key \in CorpusKeys :
                (/\ CrashCase(key)
                 /\ NameOf(key) \notin BASIC_ENERGY
                 /\ Len(Out("chopped")) < MAX_CANDIDATES) => CrashReported(key)

\* A finished run over exactly five observations that lists such a card in
\* Crashed, its archetype still below the cap
C8_Witness ==
    /\ Done /\ Len(tournament_data) = 5
    /\ \E key \in CorpusKeys :
            /\ CrashCase(key) /\ NameOf(key) \notin BASIC_ENERGY
            /\ Len(Out("chopped")) < MAX_CANDIDATES
            /\ CrashReported(key)

RiseSeries == <<<<9, 1>>, <<2, 1>>, <<3, 2>>, One>>
RiseCase(key) ==
    /\ Shows(key, RiseSeries)
    /\ key \notin KeysOf(Out("leaders"))
    /\ ArchCount(Out("rise"), ArchOf(key)) < LastCap("rise")
\* The card is listed by Rising with a positive momentum_score and a
\* growth_factor that satisfies Growth
RiseReported(key, Growth(_)) ==
    \E i \in DOMAIN Out("rise") :
        /\ Out("rise")[i].uid = key
        /\ RGt(Out("rise")[i].momentum_score, Zero)
        /\ Growth(Out("rise")[i].growth_factor)

\* C9 (rising detection), as stated: in a finished run every card whose
\* usage, newest first, is 9, 2, 1.5, 1, that Leaders does not list and whose
\* archetype is below the cap in Rising, is listed by Rising with
\* momentum_score > 0 and a growth_factor of at most 5.
C9_Rise_AsStated ==
    Done => \A key \in CorpusKeys :
                RiseCase(key) => RiseReported(key, LAMBDA g : RLe(g, <<5, 1>>))

\* C9, amended: every such card that is not named as a basic energy is, when
\* the Rising list holds fewer than MAX_CANDIDATES items, listed by Rising
\* with momentum_score > 0 and growth_factor 5.1, the ratio 9 / 1.75 rounded
\* to one decimal, which lies under the cap of 10 of the reported ratio.
C9_Rise ==
    Done => \A key \in CorpusKeys :
                (/\ RiseCase(key)
                 /\ NameOf(key) \notin BASIC_ENERGY
                 /\ Len(Out("rise")) < MAX_CANDIDATES)
                    => RiseReported(key, LAMBDA g : g = <<51, 10>> /\ RLe(g, <<10, 1>>))

\* A finished run over exactly four observations that lists such a card in
\* Rising with growth_factor 5.1
C9_Witness ==
    /\ Done /\ Len(tournament_data) = 4
    /\ \E key \in CorpusKeys :
            /\ RiseCase(key) /\ NameOf(key) \notin BASIC_ENERGY
            /\ Len(Out("rise")) < MAX_CANDIDATES
            /\ RiseReported(key, LAMBDA g : g = <<51, 10>>)

\* The Rising scorer and its ladder have been called on the working corpus
RisingCalled == pc \notin {"start", "grouped", "stopped", "filtered", "leaders"}

\* C10 (tiny corpus): over a working corpus of fewer than 3 observations, 0
\* and observations with an empty usage report included, no scorer and no
\* ladder raises, every list holds at most MAX_CANDIDATES items, and Rising
\* returns the empty list at every tier of its ladder.
C10_TinyCorpus ==
    (pc \notin {"start", "grouped", "stopped"} /\ Len(tournament_data) < MIN_RISE_TOURNAMENTS)
        => /\ ~raised
           /\ pc # "failed"
           /\ \A l \in {leaders, on_the_rise, chopped, that_day2d} : Len(l) <= MAX_CANDIDATES
           /\ RisingCalled => on_the_rise = <<>> /\ tiers.rise = <<MAX_PER_ARCHETYPE, 3, 4>>
           /\ Done => Out("rise") = <<>>

\* A finished run over two observations in which Leaders holds cards and a
\* card played at 9 percent or more in the newest observation is not one of
\* them
C10_Witness ==
    /\ Done
    /\ Len(tournament_data) = 2
    /\ Out("leaders") # <<>>
    /\ \E key \in CorpusKeys :
            /\ RGe(Usage(tournament_data, key, 0), <<9, 1>>)
            /\ key \notin KeysOf(Out("leaders"))

\* A usage report that is missing or not of the documented shape: not JSON,
\* not an object, `items` not a list, an item that is not an object or whose
\* pct is not a number
MalformedMaster(master) ==
    \/ master.kind \in {"missing", "unparseable", "array", "items-number"}
    \/ /\ master.kind = "object"
       /\ \E i \in DOMAIN master.items :
            \/ master.items[i].kind # "object"
            \/ master.items[i].pct.kind = "text"
MalformedMeta(meta) == meta.kind \in {"missing", "unparseable", "array"}

\* C11 (loading an event never fails the run): no exception leaves the
\* loader; once the corpus is loaded, an event whose master.json is missing or
\* malformed has an empty usage map and an event whose meta.json is missing or
\* malformed has no date and no format.
C11_LoaderNeverFails ==
    /\ pc # "failed"
    /\ pc \in {"grouped", "filtered"} =>
            \A e \in DOMAIN files :
                /\ MalformedMaster(files[e].master) => reports[e].pct_map = EmptyMap
                /\ MalformedMeta(files[e].meta) =>
                        IsNone(reports[e].date) /\ reports[e].format_name = <<>>

\* The canonical key an item of a usage report is stored under (None: the item
\* has neither uid nor name and is skipped)
StoredKey(item) ==
    IF IsNone(item.uid) /\ IsNone(item.name) THEN None
    ELSE Canonicalize(item.uid, item.name)[1]
Merging(items, key) == SelectSeq(items, LAMBDA item : StoredKey(item) = Some(key))
Total(items, key) ==
    RSum([i \in DOMAIN Merging(items, key) |-> PctOf(Merging(items, key)[i].pct)])
Clamped(items, key) == RMin(Int2R(100), Total(items, key))
Orders(items) ==
    {[i \in DOMAIN items |-> items[p[i]]] :
        p \in {q \in [DOMAIN items -> DOMAIN items] :
                \A i, j \in DOMAIN items : q[i] = q[j] => i = j}}
NoNegativePct(items) ==
    \A i \in DOMAIN items : ~IsNone(StoredKey(items[i])) => RGe(PctOf(items[i].pct), Zero)
\* The events whose usage report was read item by item
Itemised == {e \in DOMAIN files : files[e].master.kind = "object"}
StoredOnce(items, pct_map) ==
    DOMAIN pct_map = {Val(StoredKey(items[i])) :
                        i \in {j \in DOMAIN items : ~IsNone(StoredKey(items[j]))}}

CurationAttempted == ~IsNone(selection) /\ that_day2d_pool # <<>>
CurationFailed == CurationAttempted /\ SelectionFails(Val(selection))

\* C12 (failed curation): the candidate pool step leaves the ladder's One-Offs
\* list as it is; when reading or applying the selection fails, the curation
\* step ends without an exception and leaves that list and curated_used as
\* they were; the output step that follows publishes that list.
C12_FailedCuration ==
    [][/\ pc = "day2d" => that_day2d' = that_day2d
       /\ pc = "pool" /\ CurationFailed =>
            /\ pc' = "curated"
            /\ ~raised'
            /\ that_day2d' = that_day2d
            /\ curated_used' = FALSE
       /\ pc = "curated" =>
            /\ pc' = "done"
            /\ output'["day2d"] = Take(that_day2d, MAX_CANDIDATES)]_vars

\* A finished run whose selection failed after an entry had been resolved
C12_Witness ==
    /\ Done
    /\ CurationFailed
    /\ Val(selection).ok
    /\ Choose(BeforeFailure(Val(selection).ids), that_day2d_pool, <<>>) # <<>>
    /\ Out("day2d") # <<>>
    /\ Out("day2d") # Choose(BeforeFailure(Val(selection).ids), that_day2d_pool, <<>>)

\* C13 (list length): each of the four category lists holds at most
\* MAX_CANDIDATES items at every step of the run (after each ladder, after
\* the merge-in tiers, after curation and top-up), and so does each list of
\* the output.
C13_AtMostMax ==
    /\ Len(leaders) <= MAX_CANDIDATES
    /\ Len(on_the_rise) <= MAX_CANDIDATES
    /\ Len(chopped) <= MAX_CANDIDATES
    /\ Len(that_day2d) <= MAX_CANDIDATES
    /\ Done => \A category \in Categories : Len(Out(category)) <= MAX_CANDIDATES

\* A curated One-Offs list cut at MAX_CANDIDATES: more entries were selected
C13_Witness ==
    /\ Done
    /\ curated_used
    /\ Len(Val(selection).ids) > MAX_CANDIDATES
    /\ Len(that_day2d_pool) > MAX_CANDIDATES
    /\ Len(Out("day2d")) = MAX_CANDIDATES

ListAt(category, cap) ==
    CASE category = "rise" ->
            ComputeOnTheRise(tournament_data,
                             GetAllCardKeys(tournament_data, all_cards_cache),
                             KeysOf(leaders), MAX_CANDIDATES, cap, reports,
                             archetype_cache).result
      [] category = "chopped" ->
            ComputeChoppedAndWashed(tournament_data,
                                    GetAllCardKeys(tournament_data, all_cards_cache),
                                    KeysOf(leaders) \cup KeysOf(on_the_rise),
                                    MAX_CANDIDATES, cap, clock, reports,
                                    archetype_cache).result
      [] category = "day2d" ->
            ComputeThatDay2d(tournaments,
                             KeysOf(leaders) \cup KeysOf(on_the_rise) \cup KeysOf(chopped),
                             MAX_CANDIDATES, cap, reports, tournament_data_cache,
                             all_cards_cache, archetype_cache).result
CapOrder == <<MAX_PER_ARCHETYPE, 3, 4>>
LadderRule(category, list) ==
    \E n \in DOMAIN CapOrder :
        /\ tiers[category] = Take(CapOrder, n)
        /\ list = ListAt(category, CapOrder[n])
        /\ \A i \in 1..(n - 1) : Len(ListAt(category, CapOrder[i])) < MIN_CANDIDATES
        /\ n < Len(CapOrder) => Len(list) >= MIN_CANDIDATES

\* C15 (cap ladder): when the ladder of Rising, Crashed or One-Offs has
\* ended, the caps tried are a prefix of 2, 3, 4, the list is the one the
\* scorer gives for the last cap tried with the same exclusions, every cap
\* tried before it gave fewer than MIN_CANDIDATES items, and the last cap is
\* 4 unless its list has MIN_CANDIDATES items.
C15_CapLadder ==
    /\ pc = "rise" => LadderRule("rise", on_the_rise)
    /\ pc = "chopped" => LadderRule("chopped", chopped)
    /\ pc = "day2d" => LadderRule("day2d", that_day2d)

\* A ladder that stopped at cap 3
C15_Witness ==
    /\ pc = "chopped"
    /\ tiers["chopped"] = <<MAX_PER_ARCHETYPE, 3>>
    /\ Len(chopped) >= MIN_CANDIDATES
    /\ Len(ListAt("chopped", 4)) > Len(ListAt("chopped", MAX_PER_ARCHETYPE))

\* The rank of the pool item a selection entry stands for: the item of that
\* uid, else the best ranked item of that name, else 0
LowestOf(ranks) == CHOOSE i \in ranks : \A j \in ranks : i <= j
WithUid(sid, pool) == {i \in DOMAIN pool : pool[i].uid = sid}
WithName(sid, pool) == {i \in DOMAIN pool : pool[i].name = sid}
RankOf(sid, pool) ==
    IF WithUid(sid, pool) # {} THEN LowestOf(WithUid(sid, pool))
    ELSE IF WithName(sid, pool) # {} THEN LowestOf(WithName(sid, pool))
    ELSE 0
\* The selection entries that resolve to a pool item, without the entries
\* that resolve to an item an earlier entry resolved to
Positions(n) == [i \in 1..n |-> i]
Resolving(ids, pool) ==
    SelectSeq(Positions(Len(ids)), LAMBDA i :
        /\ RankOf(ids[i], pool) # 0
        /\ \A j \in 1..(i - 1) : RankOf(ids[j], pool) # RankOf(ids[i], pool))
Selected(ids, pool) ==
    Take([k \in DOMAIN Resolving(ids, pool) |-> pool[RankOf(ids[Resolving(ids, pool)[k]], pool)]],
         MAX_CANDIDATES)
NotSelected(ids, pool) ==
    SelectSeq(pool, LAMBDA item : item \notin Range(Selected(ids, pool)))
TopUp(ids, pool) ==
    IF Len(Selected(ids, pool)) < MIN_CANDIDATES
    THEN Take(NotSelected(ids, pool), MIN_CANDIDATES - Len(Selected(ids, pool)))
    ELSE <<>>

\* C16 (curated list): when a selection was applied, the One-Offs list of the
\* output is the pool items the selection entries resolve to (by uid, else by
\* name), in selection order, each once, cut at MAX_CANDIDATES, followed when
\* they are fewer than MIN_CANDIDATES by the pool items not among them, in
\* pool order, up to MIN_CANDIDATES items in all.
C16_CuratedList ==
    (Done /\ curated_used) =>
        Out("day2d") = Selected(Val(selection).ids, that_day2d_pool)
                            \o TopUp(Val(selection).ids, that_day2d_pool)

\* A selection with an entry resolved by name, an entry that resolves to
\* nothing and a repeated item, topped up from a larger pool
C16_Witness ==
    /\ Done /\ curated_used
    /\ Len(that_day2d_pool) > MIN_CANDIDATES
    /\ Len(Out("day2d")) = MIN_CANDIDATES
    /\ Len(Selected(Val(selection).ids, that_day2d_pool)) \in 1..(Len(Val(selection).ids) - 2)
    /\ \E i \in DOMAIN Val(selection).ids :
            /\ WithUid(Val(selection).ids[i], that_day2d_pool) = {}
            /\ WithName(Val(selection).ids[i], that_day2d_pool) # {}
    /\ \E i \in DOMAIN Val(selection).ids : RankOf(Val(selection).ids[i], that_day2d_pool) = 0

\* The events of the One-Offs look-back and the observations the scorer
\* works on when it is called in the current state
LookBack == Range(Take(tournaments, DAY2D_LOOKBACK_TOURNAMENTS))
Day2dWindow ==
    LoadGroupedTournamentData(Take(tournaments, DAY2D_LOOKBACK_TOURNAMENTS), reports,
                              tournament_data_cache)
UsedWithin(key, events) ==
    \E e \in events : RGt(Get(reports[e].pct_map, key, Zero), Zero)

\* C17 (One-Offs look-back): when the One-Offs scorer is called, every
\* observation of its window is made of events among the 20 most recent of
\* the tournament order, and every card of the One-Offs list has usage in
\* one of these events.
C17_LookBack ==
    /\ pc = "chopped" =>
            \A i \in DOMAIN Day2dWindow :
                Range(Day2dWindow[i].tournament_names) \subseteq LookBack
    /\ pc = "day2d" =>
            \A i \in DOMAIN that_day2d : UsedWithin(that_day2d[i].uid, LookBack)

\* The card keys with usage in the window of the One-Offs scorer and the keys
\* the scorer evaluates when it is called in the current state
WindowKeys == UNION {DOMAIN Day2dWindow[i].pct_map : i \in DOMAIN Day2dWindow}
Day2dKeys ==
    IF Day2dWindow = <<>> THEN {} ELSE GetAllCardKeys(Day2dWindow, all_cards_cache)
Day2dExclusions == KeysOf(leaders) \cup KeysOf(on_the_rise) \cup KeysOf(chopped)
PassesDay2d(key) ==
    ~IsNone(Day2dCandidate(Day2dWindow, key, Day2dExclusions, reports, archetype_cache))
Day2dArch(key) ==
    Val(Day2dCandidate(Day2dWindow, key, Day2dExclusions, reports, archetype_cache)).archetype

\* C18 (One-Offs candidates are rotation-unfiltered): when the One-Offs scorer
\* is called, every card key with usage in its window is among the keys it
\* evaluates; and when its ladder ends short of MIN_CANDIDATES, every such
\* key that passes the One-Offs gates is listed, unless its archetype already
\* has the 4 items of the loosest cap.
C18_Unfiltered ==
    /\ pc = "chopped" => WindowKeys \subseteq Day2dKeys
    /\ (pc = "day2d" /\ Len(that_day2d) < MIN_CANDIDATES) =>
            \A key \in WindowKeys :
                PassesDay2d(key) =>
                    \/ key \in KeysOf(that_day2d)
                    \/ Cardinality({i \in DOMAIN that_day2d :
                                        that_day2d[i].archetype = Day2dArch(key)}) >= 4

\* The archetype of the first deck that holds a card of that name, over the
\* events of the observations of `window` in order
FirstDeck(name, window) ==
    OrUnspecified(FindArchetypeForCardGrouped(name, window, reports, EmptyMap))
OwnWindow(list, window) ==
    \A i \in DOMAIN list : list[i].archetype = FirstDeck(list[i].name, window)

\* C19 (archetype attribution): the archetype of every item a scorer lists is
\* the archetype of the first deck holding a card of the item's name, over
\* the events of that scorer's own window (the working corpus for Rising and
\* Crashed, the extended window for One-Offs), whatever was looked up before.
C19_OwnWindow ==
    /\ pc = "rise" => OwnWindow(on_the_rise, tournament_data)
    /\ pc = "chopped" => OwnWindow(chopped, tournament_data)
    /\ pc = "day2d" => OwnWindow(that_day2d, Day2dWindow)

-----------------------------------------------------------------------------
(* Weekend Grouper: anchors and output order *)

Dated == {e \in DOMAIN reports : ~IsNone(reports[e].date)}
DateOf(e) == Val(reports[e].date)
Together(a, b) ==
    \E g \in DOMAIN grouped : {a, b} \subseteq Range(grouped[g].tournament_names)

\* The Saturday of the Monday-to-Sunday week that contains the day
SaturdayOfWeek(day) == day - (day % 7) + 5
\* The last Saturday that is not after the day
SaturdayBefore(day) == CHOOSE s \in (day - 6)..day : s % 7 = 5

\* C21 as stated: two dated events are merged iff the Saturdays of their
\* Monday-to-Sunday calendar weeks are equal.
C21_Anchor_AsStated ==
    pc = "grouped" =>
        \A a, b \in Dated :
            Together(a, b) <=> SaturdayOfWeek(DateOf(a)) = SaturdayOfWeek(DateOf(b))

\* C21 (amended): two dated events are in the same merged observation iff
\* the last Saturday on or before their dates is the same day; the weeks run
\* from Saturday to Friday.
C21_Anchor ==
    pc = "grouped" =>
        \A a, b \in Dated :
            Together(a, b) <=> SaturdayBefore(DateOf(a)) = SaturdayBefore(DateOf(b))

\* A Friday, the Saturday after it and the Monday after that: the Saturday
\* and the Monday are merged, the Friday stays apart
C21_Witness ==
    /\ pc = "grouped"
    /\ \E a, b, c \in Dated :
        /\ DateOf(a) = BaseDay - 1
        /\ DateOf(b) = BaseDay
        /\ DateOf(c) = BaseDay + 2
        /\ Together(b, c)
        /\ ~Together(a, b)
        /\ Len(grouped) = 2

Undated == SelectSeq(tournaments, LAMBDA e : IsNone(reports[e].date))
Anchors == {SaturdayBefore(DateOf(e)) : e \in Dated}
NamesOf(g) == Range(grouped[g].tournament_names)
AnchorOf(g) == SaturdayBefore(DateOf(grouped[g].tournament_names[1]))

\* C22 (output order): the observations of the Weekend Grouper are first
\* the groups of dated events, one per anchor, in strictly descending anchor
\* order whatever the order of the events, then the undated events one by
\* one in their input order; every event is named by exactly one observation.
C22_OutputOrder ==
    pc = "grouped" =>
        LET merged == Cardinality(Anchors)
        IN  /\ Len(grouped) = merged + Len(Undated)
            /\ \A g \in 1..merged : NamesOf(g) \subseteq Dated
            /\ \A g, h \in 1..merged : g < h => AnchorOf(g) > AnchorOf(h)
            /\ \A i \in 1..Len(Undated) :
                    grouped[merged + i].tournament_names = <<Undated[i]>>
            /\ \A e \in Range(tournaments) :
                    Cardinality({g \in DOMAIN grouped : e \in NamesOf(g)}) = 1

\* The order lists a Saturday event, an undated event and an event of the
\* following Saturday: the newer Saturday comes first, the undated event last
C22_Witness ==
    /\ pc = "grouped"
    /\ Len(tournaments) = 3
    /\ reports[1].date = Some(BaseDay)
    /\ reports[2].date = None
    /\ reports[3].date = Some(BaseDay + 7)
    /\ [g \in DOMAIN grouped |-> grouped[g].tournament_names] = <<<<3>>, <<1>>, <<2>>>>

-----------------------------------------------------------------------------
(* Events whose files are missing or malformed *)

Broken(e) ==
    \/ MalformedMeta(files[e].meta)
    \/ files[e].meta.start = "bad"
    \/ MalformedMaster(files[e].master)
Occupies(e) == \E g \in DOMAIN tournament_data : e \in Range(tournament_data[g].tournament_names)
Slot(e) == CHOOSE g \in DOMAIN tournament_data : e \in Range(tournament_data[g].tournament_names)

\* C23 (ordinal slot): in the observations handed to the scorers, an event
\* whose meta.json or master.json is missing or malformed is present and
\* stands before the events listed after it in the tournament order and
\* after the events listed before it.
C23_OrdinalSlot ==
    pc = "filtered" =>
        \A a, b \in DOMAIN files :
            (a < b /\ (Broken(a) \/ Broken(b))) =>
                /\ Occupies(a)
                /\ Occupies(b)
                /\ Slot(a) <= Slot(b)

-----------------------------------------------------------------------------
(* Crashed scorer: the sustained run of a peak *)

SustainLevel == RMul(MIN_CHOPPED_PEAK_PCT, <<7, 10>>)
Sustains(key, idx) == RGe(Usage(tournament_data, key, idx), SustainLevel)
PeakStarts(key) ==
    {i \in 1..(Min(Len(tournament_data), 1 + PEAK_LOOKBACK) - 1) :
        RGe(Usage(tournament_data, key, i), MIN_CHOPPED_PEAK_PCT)}
\* The number of observations i+1, i+2, ... up to index `last` that sustain
\* the peak at i, counted up to the first that does not
RunAfter(key, i, last) ==
    CHOOSE n \in 0..(last - i) :
        /\ \A j \in (i + 1)..(i + n) : Sustains(key, j)
        /\ n = last - i \/ ~Sustains(key, i + n + 1)
MeanFrom(key, i, n) ==
    RDiv(RSum([j \in 1..(n + 1) |-> Usage(tournament_data, key, i + j - 1)]), Int2R(n + 1))
\* The scorer's sustained count and average of the peak at i are those of
\* the run that may extend to index `last`
SustainedAs(key, i, last) ==
    LET run == SustainedRun(tournament_data, key, i)
    IN  /\ run[1] = 1 + RunAfter(key, i, last)
        /\ RDiv(run[2], Int2R(run[1])) = MeanFrom(key, i, RunAfter(key, i, last))
ListedAs(item, i, last) ==
    /\ item.sustained_peak = 1 + RunAfter(item.uid, i, last)
    /\ item.peak_usage = Round1(MeanFrom(item.uid, i, RunAfter(item.uid, i, last)))
LastOfCorpus == Len(tournament_data) - 1
LastOfWindow(i) == Min(LastOfCorpus, i + MIN_SUSTAINED_PEAK_TOURNAMENTS + 1)

\* C24 as stated: for every peak start the sustained count is 1 plus the
\* length of the run of older observations at or above 70% of the peak
\* threshold, a run that ends only below that level or at the end of the
\* corpus, and the sustained average is the mean over the peak and that run;
\* every Crashed item reports the count and the average of one of its peaks.
C24_SustainedRun_AsStated ==
    pc = "chopped" =>
        /\ \A key \in CorpusKeys : \A i \in PeakStarts(key) : SustainedAs(key, i, LastOfCorpus)
        /\ \A x \in DOMAIN chopped :
                \E i \in PeakStarts(chopped[x].uid) : ListedAs(chopped[x], i, LastOfCorpus)

\* C24 (amended): the run is looked for among the
\* MIN_SUSTAINED_PEAK_TOURNAMENTS + 1 observations after the peak only, so
\* that the sustained count is at most MIN_SUSTAINED_PEAK_TOURNAMENTS + 2.
C24_SustainedRun ==
    pc = "chopped" =>
        /\ \A key \in CorpusKeys : \A i \in PeakStarts(key) :
                /\ SustainedAs(key, i, LastOfWindow(i))
                /\ SustainedRun(tournament_data, key, i)[1] <= MIN_SUSTAINED_PEAK_TOURNAMENTS + 2
        /\ \A x \in DOMAIN chopped :
                \E i \in PeakStarts(chopped[x].uid) : ListedAs(chopped[x], i, LastOfWindow(i))

\* A former staple played at 18, 20, 22, 24 and 26 percent in the five oldest
\* of seven observations is listed with a sustained count of 4 and a
\* sustained average of 21, the mean of 18, 20, 22 and 24
C24_Witness ==
    /\ pc = "chopped"
    /\ Len(tournament_data) = 7
    /\ \E x \in DOMAIN chopped :
        /\ SeriesOf(chopped[x].uid) =
                <<Zero, Zero, <<18, 1>>, <<20, 1>>, <<22, 1>>, <<24, 1>>, <<26, 1>>>>
        /\ chopped[x].sustained_peak = 4
        /\ chopped[x].peak_usage = <<21, 1>>

-----------------------------------------------------------------------------
(* Leaders: order, duplicates and quota of the final list *)

\* The figures the Leaders scorer computes for the cards of a list
LeaderStatsOf(list) ==
    LET tournament_rankings == [i \in DOMAIN tournament_data |-> RankingMap(tournament_data[i])]
    IN  [x \in DOMAIN list |-> LeaderStat(tournament_data, list[x].uid, tournament_rankings)]
MergedIn == {6, 7} \cap Range(tiers.leaders) # {}

\* C25 as stated: the final Leaders list is in descending order of leader
\* score, ties by lower average rank, then by name, whichever tier produced
\* its items.
C25_LeadersOrder_AsStated ==
    pc = "leaders" =>
        \A stat \in {LeaderStatsOf(leaders)} :
            \A i, j \in DOMAIN leaders : i < j => LeaderBefore(stat[i], stat[j])

PassesTier(stat, tier) ==
    /\ RGe(stat.appearance_rate, tier[1])
    /\ RGe(stat.avg_usage, tier[2])
    /\ RLe(stat.avg_ranking, Int2R(tier[3]))
\* 1: the card passes the thresholds of the last threshold tier; 2: it passes
\* those of the loose pool only; 3: it passes neither
Segment(stat) ==
    IF PassesTier(stat, LeaderTiers[Len(LeaderTiers)]) THEN 1
    ELSE IF PassesTier(stat, LoosePoolTier) THEN 2 ELSE 3
SegmentsOf(stat) == [x \in DOMAIN stat |-> Segment(stat[x])]

\* C25 (amended): the final Leaders list holds first the cards that pass the
\* last threshold tier, then the cards merged in from the loose pool, then
\* those merged in from the ultimate pool; each of the three parts is in
\* descending order of leader score, ties by lower average rank, then by name.
C25_LeadersOrder ==
    pc = "leaders" =>
        \A stat \in {LeaderStatsOf(leaders)} : \A part \in {SegmentsOf(stat)} :
            \A i, j \in DOMAIN leaders :
                i < j =>
                    \/ part[i] < part[j]
                    \/ part[i] = part[j] /\ LeaderBefore(stat[i], stat[j])

\* A card merged in from the loose pool stands behind a card of the last
\* threshold tier whose leader score is lower
C25_Witness ==
    /\ pc = "leaders"
    /\ MergedIn
    /\ \E stat \in {LeaderStatsOf(leaders)} : \E part \in {SegmentsOf(stat)} :
            \E i, j \in DOMAIN leaders :
                /\ i < j
                /\ part[i] = 1
                /\ part[j] = 2
                /\ RGt(stat[j].leader_score, stat[i].leader_score)

-----------------------------------------------------------------------------
(* Rising scorer: the momentum gates *)

Latest(key) == Usage(tournament_data, key, 0)
Preceding(key) ==
    RDiv(RAdd(Usage(tournament_data, key, 1), Usage(tournament_data, key, 2)), Int2R(2))
RiseGates(key) ==
    /\ Len(tournament_data) >= 3
    /\ RGe(Latest(key), MIN_RISE_CURRENT_PCT)
    /\ RGe(RSub(Latest(key), Preceding(key)), MIN_RISE_DELTA_ABS)
    /\ \E i \in 1..(Len(tournament_data) - 1) : Usage(tournament_data, key, i) # Zero
    /\ \/ /\ Preceding(key) # Zero
          /\ RGe(RDiv(Latest(key), Preceding(key)), MIN_RISE_DELTA_REL)
       \/ /\ Preceding(key) = Zero
          /\ RGe(Latest(key), RMul(<<6, 5>>, MIN_RISE_CURRENT_PCT))
\* A card the scorer looks at: neither excluded as a Leader nor a basic energy
RiseOpen(key) == key \notin KeysOf(leaders) /\ NameOf(key) \notin BASIC_ENERGY
NewlyLegal(key) ==
    /\ RGe(Latest(key), RMul(<<6, 5>>, MIN_RISE_CURRENT_PCT))
    /\ \A i \in 1..(Len(tournament_data) - 1) : Usage(tournament_data, key, i) = Zero

\* C26 (momentum gates): at every cap of the ladder, every item of the
\* Rising list passes the gates on latest usage, absolute growth, earlier
\* usage and relative growth; and a card that passes them and is open to the
\* scorer is left out at a cap only because the list is full or its
\* archetype has reached the cap, so that the cap alone changes between tiers.
C26_RiseGates ==
    pc = "rise" =>
        \A c \in DOMAIN CapOrder : \A list \in {ListAt("rise", CapOrder[c])} :
            /\ \A x \in DOMAIN list : RiseGates(list[x].uid)
            /\ \A key \in CorpusKeys :
                    (RiseGates(key) /\ RiseOpen(key) /\ key \notin KeysOf(list)) =>
                        \/ Len(list) >= MAX_CANDIDATES
                        \/ ArchCount(list, ArchOf(key)) >= CapOrder[c]

\* The ladder went through its three caps over a corpus with a newly legal
\* card, which no cap lists, and with a card that only the widest cap lists
C26_Witness ==
    /\ pc = "rise"
    /\ tiers["rise"] = CapOrder
    /\ on_the_rise # <<>>
    /\ \E key \in CorpusKeys :
        /\ NewlyLegal(key) /\ RiseOpen(key)
        /\ \A c \in DOMAIN CapOrder : key \notin KeysOf(ListAt("rise", CapOrder[c]))
    /\ KeysOf(ListAt("rise", MAX_PER_ARCHETYPE)) # KeysOf(ListAt("rise", 4))

-----------------------------------------------------------------------------
(* One-Offs: the gates of the final list *)

\* The observations of the DAY2D_LOOKBACK_TOURNAMENTS most recent events
LookBackWindow ==
    LoadGroupedTournamentData(Take(tournaments, DAY2D_LOOKBACK_TOURNAMENTS), reports, None)
UsageOver(window, key) == [i \in DOMAIN window |-> Usage(window, key, i - 1)]
Day2dGates(usage) ==
    /\ \A i \in 1..Min(3, Len(usage)) : RLe(usage[i], MAX_DAY2D_RECENT_PCT)
    /\ \A i \in DOMAIN usage : RLe(usage[i], MAX_DAY2D_PEAK_USAGE)
    /\ \E i \in DOMAIN usage : RGe(usage[i], MIN_DAY2D_MIN_APPEARANCE)
    /\ Cardinality({i \in DOMAIN usage : usage[i] # Zero}) <= 2
    /\ RLe(RSum(usage), MAX_DAY2D_TOTAL_USAGE_SUM)
    /\ \A i, j \in DOMAIN usage :
            (/\ i < j
             /\ RGe(usage[i], MIN_DAY2D_MIN_APPEARANCE)
             /\ RGe(usage[j], MIN_DAY2D_MIN_APPEARANCE)) => j - i >= 2

\* C27 (One-Offs gates): every item of the final One-Offs list, computed or
\* curated, passes the gates over the window of the 20 most recent events:
\* usage at most MAX_DAY2D_RECENT_PCT in its 3 newest observations, peak
\* usage between MIN_DAY2D_MIN_APPEARANCE and MAX_DAY2D_PEAK_USAGE, at most 2
\* observations with usage, total usage at most MAX_DAY2D_TOTAL_USAGE_SUM,
\* and two meaningful appearances at least 2 observations apart.
C27_Day2dGates ==
    Done =>
        \A window \in {LookBackWindow} :
            \A x \in DOMAIN Out("day2d") :
                Day2dGates(UsageOver(window, Out("day2d")[x].uid))

-----------------------------------------------------------------------------
(* Basic energies and duplicates in the lists *)

NoEnergy(list) == \A x \in DOMAIN list : list[x].name \notin BASIC_ENERGY
\* The basic energies of the working corpus
EnergyKeys == {key \in CorpusKeys : NameOf(key) \in BASIC_ENERGY}

\* C28 (basic energies): no item of the Leaders, Rising, Crashed and One-Offs
\* lists, of the One-Offs candidate pool or of the four lists of the output
\* carries the display name of a basic energy, and no card of the corpus
\* whose display name is a basic energy is listed under its uid.
C28_NoBasicEnergy ==
    /\ NoEnergy(leaders) /\ NoEnergy(on_the_rise) /\ NoEnergy(chopped)
    /\ NoEnergy(that_day2d) /\ NoEnergy(that_day2d_pool)
    /\ EnergyKeys \cap (KeysOf(leaders) \cup KeysOf(on_the_rise) \cup KeysOf(chopped)
                        \cup KeysOf(that_day2d) \cup KeysOf(that_day2d_pool)) = {}
    /\ Done => \A c \in Categories : NoEnergy(Out(c)) /\ EnergyKeys \cap KeysOf(Out(c)) = {}

\* A finished run with a curated One-Offs list over a corpus with a basic
\* energy that passes the gates of the Rising scorer, one that fell from a
\* sustained peak as the listed Crashed cards did and one that passes the
\* gates of the One-Offs scorer
C28_Witness ==
    /\ Done /\ curated_used
    /\ Out("rise") # <<>> /\ Out("chopped") # <<>> /\ Out("day2d") # <<>>
    /\ \E key \in EnergyKeys : RiseGates(key)
    /\ \E key \in EnergyKeys : Shows(key, CrashSeries)
    /\ \E key \in EnergyKeys : Day2dGates(UsageOver(LookBackWindow, key))

NoDuplicate(list) == \A i, j \in DOMAIN list : i # j => list[i].uid # list[j].uid
\* The selection names a pool item twice
NamedTwice ==
    \E i, j \in DOMAIN Val(selection).ids :
        /\ i < j
        /\ RankOf(Val(selection).ids[i], that_day2d_pool) > 0
        /\ RankOf(Val(selection).ids[i], that_day2d_pool) =
                RankOf(Val(selection).ids[j], that_day2d_pool)

\* C29 (no duplicates): no uid occurs twice in the Leaders, Rising, Crashed
\* or One-Offs list, whether Leaders went through its merge-in tiers or not
\* and whether One-Offs was curated or not, nor in a list of the output.
C29_NoDuplicates ==
    /\ NoDuplicate(leaders) /\ NoDuplicate(on_the_rise) /\ NoDuplicate(chopped)
    /\ NoDuplicate(that_day2d)
    /\ Done => \A c \in Categories : NoDuplicate(Out(c))

\* A finished run whose One-Offs list was curated from a selection that
\* names a pool item twice, by name and by uid, and was topped up from the
\* pool
C29_Witness ==
    /\ Done
    /\ curated_used /\ NamedTwice
    /\ Len(Out("day2d")) > Len(Val(selection).ids)

-----------------------------------------------------------------------------
(* Leaders: the quota and the merge-in tiers *)

\* Cards other than basic energies that were played in some observation of
\* the working corpus
Played ==
    {key \in UNION {DOMAIN tournament_data[i].pct_map : i \in DOMAIN tournament_data} :
        /\ GetDisplayName(key, tournament_data) \notin BASIC_ENERGY
        /\ \E i \in DOMAIN tournament_data : Usage(tournament_data, key, i - 1) # Zero}

\* What the threshold tiers, and then the loose pool, leave of the Leaders list
ThresholdList(all_stats) == ThresholdLadder(all_stats, 1, <<>>).result
LooseList(all_stats) ==
    PoolTier(all_stats, ThresholdLadder(all_stats, 1, <<>>), LoosePoolTier, 6).result

\* `list` is `before` followed by items of `pool` that `before` does not
\* hold, and is no longer than the quota
Appended(before, list, pool) ==
    /\ Len(before) <= Len(list) /\ Len(list) <= MIN_CANDIDATES
    /\ SubSeq(list, 1, Len(before)) = before
    /\ \A x \in (Len(before) + 1)..Len(list) :
            /\ list[x] \in Range(pool)
            /\ list[x].uid \notin KeysOf(before)

\* C30 (Leaders quota): with MIN_CANDIDATES played cards that are not basic
\* energies the Leaders list has at least MIN_CANDIDATES items; a merge-in
\* tier leaves the list of the tier before it in place, appends pool items
\* only, and leaves exactly MIN_CANDIDATES items when it adds enough.
C30_LeadersQuota ==
    pc = "leaders" /\ tournament_data # <<>> =>
        \A all_stats \in {LeaderStats(tournament_data, Val(all_cards_cache))} :
            /\ Cardinality(Played) >= MIN_CANDIDATES => Len(leaders) >= MIN_CANDIDATES
            /\ 6 \in Range(tiers.leaders) =>
                    Appended(ThresholdList(all_stats), LooseList(all_stats),
                             LeadersAt(all_stats, LoosePoolTier))
            /\ 7 \in Range(tiers.leaders) =>
                    Appended(LooseList(all_stats), leaders,
                             LeadersAt(all_stats, UltimatePoolTier))
            /\ MergedIn /\ 7 \notin Range(tiers.leaders) => leaders = LooseList(all_stats)
            /\ MergedIn => Len(leaders) <= MIN_CANDIDATES

\* The threshold tiers leave the list short, the pools hold more than is
\* missing, and both merges add items up to the quota
C30_Witness ==
    /\ pc = "leaders" /\ tournament_data # <<>>
    /\ Cardinality(Played) > MIN_CANDIDATES
    /\ 7 \in Range(tiers.leaders)
    /\ \A all_stats \in {LeaderStats(tournament_data, Val(all_cards_cache))} :
            /\ Len(ThresholdList(all_stats)) < Len(LooseList(all_stats))
            /\ Len(LooseList(all_stats)) < Len(leaders)
            /\ Len(LeadersAt(all_stats, UltimatePoolTier)) > MIN_CANDIDATES
    /\ Len(leaders) = MIN_CANDIDATES

====
